---- MODULE Spec2Model ----
(***************************************************************************)
(* A model of gvtester.py: the GPUVerify test runner.                      *)
(*                                                                         *)
(*   - GPUVerifyTestKernel.run      (one test: tool exit code, match rules)*)
(*   - Worker / ThreadPool          (N threads sharing one Queue.Queue)    *)
(*   - doComparison                 (the diff of two recorded runs)        *)
(*   - getCanonicalTestName         (the identity two runs are joined on)  *)
(*   - GPUVerifyTestKernel.__init__ (the parser of a kernel file)          *)
(*   - main                         (arguments, discovery, exit status)    *)
(*   - summariseTests               (the counts printed after a run)       *)
(*                                                                         *)
(* and of gvapi.py: GPUVerifyTool's observers and run methods.             *)
(*                                                                         *)
(* Python values: an int n held in a result field is modelled as <<n>>,    *)
(* the empty string "" those fields start with as <<>>; None, True and     *)
(* False as the strings "None", "True" and "False".  A path, a line of a  *)
(* file and a command-line token are sequences of one-character strings.   *)
(***************************************************************************)
EXTENDS Integers, Sequences, FiniteSets, TLC

VARIABLES
    numberOfThreads,   \* ThreadPool.__init__'s argument (args.threads)
    tests,             \* main's list "tests": the GPUVerifyTestKernel objects
    theQueue,          \* Queue.Queue's deque: indices into tests, head first
    unfinished_tasks,  \* Queue.Queue.unfinished_tasks (put: +1, task_done: -1)
    wpc,               \* each Worker thread's position in Worker.run
    wtest,             \* each Worker's local variable "test" (0: none yet)
    mainPc,            \* main's position: "add", "start", "wait", "done"
    runCount,          \* history: per test, how often run() was invoked on it
    queuedAtInterrupt, \* history: tests in the queue when a CTRL_C was observed
    kernel,            \* a GPUVerifyTestKernel that run() is called on directly
    toolOutcome,       \* what the tool did in that call
    runPc,             \* "parsed" before that call, "returned" or "raised" after
    oldTestList,       \* doComparison's oldTestList
    newTestList,       \* doComparison's newTestList
    cmpPc,             \* "idle" before doComparison was called, "done" after
    cmpResult,         \* doComparison's counters and return value
    cmpMode,           \* who calls doComparison: "compare-pickles", "compare-run"
    exitStatus,        \* the status the process exited with, <<n>>; <<>> before
    canonIn,           \* getCanonicalTestName's arguments: path and prefix
    canonOut,          \* what it gave, and the key doComparison files the path under
    canonPc,           \* "idle" before getCanonicalTestName was called, "done" after
    kernelFiles,       \* the content of each kernel file main found, in path order
    parseIndex,        \* how many of them main's loop has been through
    parseOut,          \* what the last GPUVerifyTestKernel(kernelPath) did
    parsed,            \* main's list "tests" while that loop fills it
    parsePc,           \* "parsing" in that loop, else the exception that left main
    args,              \* what the command line holds: the action option and args.*
    isdir,             \* whether args.directory is an existing directory
    mainStage,         \* main's position: "parse_args", "check", "load", "discover",
                       \* "parse", "finish"; "exited" once the process has ended
    exitCause,         \* why the process ended, "none" before
    comparedAs,        \* << v >> once doComparison returned v in this process
    did,               \* history: "load", "discover", "parse", "execute" once done
    summaryTests,      \* summariseTests's argument "tests"
    summary,           \* the counters summariseTests prints
    summaryPc,         \* "idle" before summariseTests was called, "printed" after
    observers,         \* GPUVerifyTool.observers: what each one's receive does
    timeout,           \* the timeout runOpenCL/runCUDA is called with
    toolResponse,      \* what __runTool returns in that call
    response,          \* what the call returned, << >> (None) before and if it raised
    received,          \* history: the receive calls made, in order
    apiPc              \* "idle" before that call, "returned" or "raised" after

vars == << numberOfThreads, tests, theQueue, unfinished_tasks, wpc, wtest,
           mainPc, runCount, queuedAtInterrupt,
           kernel, toolOutcome, runPc,
           oldTestList, newTestList, cmpPc, cmpResult, cmpMode, exitStatus,
           canonIn, canonOut, canonPc,
           kernelFiles, parseIndex, parseOut, parsed, parsePc,
           args, isdir, mainStage, exitCause, comparedAs, did,
           summaryTests, summary, summaryPc,
           observers, timeout, toolResponse, response, received, apiPc >>

poolVars == << numberOfThreads, tests, theQueue, unfinished_tasks, wpc, wtest,
               mainPc, runCount, queuedAtInterrupt >>

runVars == << kernel, toolOutcome, runPc >>

cmpVars == << oldTestList, newTestList, cmpPc, cmpResult, cmpMode >>

canonVars == << canonIn, canonOut, canonPc >>

parseVars == << kernelFiles, parseIndex, parseOut, parsed, parsePc >>

mainVars == << args, isdir, mainStage, exitCause, comparedAs, did >>

summaryVars == << summaryTests, summary, summaryPc >>

apiVars == << observers, timeout, toolResponse, response, received, apiPc >>

\* What the actions of one part leave alone; exitStatus is left out of the
\* last three, whose actions can end the process.
notPoolVars == << runVars, cmpVars, canonVars, parseVars, mainVars, exitStatus,
                  summaryVars, apiVars >>

notRunVars == << poolVars, cmpVars, canonVars, parseVars, mainVars, exitStatus,
                 summaryVars, apiVars >>

notCanonVars == << poolVars, runVars, cmpVars, parseVars, mainVars, exitStatus,
                   summaryVars, apiVars >>

notCmpVars == << poolVars, runVars, canonVars, parseVars, mainVars,
                 summaryVars, apiVars >>

notParseVars == << poolVars, runVars, cmpVars, canonVars, summaryVars, apiVars >>

notMainVars == << poolVars, runVars, cmpVars, canonVars, summaryVars, apiVars >>

notSummaryVars == << poolVars, runVars, cmpVars, canonVars, parseVars, mainVars,
                     exitStatus, apiVars >>

notApiVars == << poolVars, runVars, cmpVars, canonVars, parseVars, mainVars,
                 exitStatus, summaryVars >>

-----------------------------------------------------------------------------
(* Bounds of the model.                                                    *)

MaxThreads == 2

MaxTests == 3

MaxRunLen == 2

MaxPathLen == 4

MaxKernelFiles == 2

MaxObservers == 2

-----------------------------------------------------------------------------
(* The error-code registry.                                                *)

\* GPUVerify.ErrorCodes: the tool's exit codes by name.
ErrorCodes ==
    [ SUCCESS |-> 0, COMMAND_LINE_ERROR |-> 1, CLANG_ERROR |-> 2,
      OPT_ERROR |-> 3, BUGLE_ERROR |-> 4, GPUVERIFYVCGEN_ERROR |-> 5,
      BOOGIE_ERROR |-> 6, TIMEOUT |-> 7, CTRL_C |-> 8,
      CONFIGURATION_ERROR |-> 9 ]

SUCCESS == ErrorCodes.SUCCESS

TIMEOUT == ErrorCodes.TIMEOUT

CTRL_C == ErrorCodes.CTRL_C

BaseCodes == { ErrorCodes[n] : n \in DOMAIN ErrorCodes }

\* A static_init that takes the largest base code itself as the sentinel.
REGEX_MISMATCH_ERROR_IsLargest ==
    CHOOSE largest \in BaseCodes : \A num \in BaseCodes : num <= largest

\* static_init: one more than the largest code of the base class.
REGEX_MISMATCH_ERROR ==
    (CHOOSE largest \in BaseCodes : \A num \in BaseCodes : num <= largest) + 1

\* static_init: the reverse mapping { num : string } over the class's ints.
errorCodeToString ==
    [ num \in BaseCodes \cup {REGEX_MISMATCH_ERROR} |->
        IF num = REGEX_MISMATCH_ERROR
        THEN "REGEX_MISMATCH_ERROR"
        ELSE CHOOSE n \in DOMAIN ErrorCodes : ErrorCodes[n] = num ]

-----------------------------------------------------------------------------
(* GPUVerifyTestKernel.                                                    *)

None == "None"

True == "True"

False == "False"

\* Every registered code counted as valid for //xfail:.
getEveryCode == DOMAIN errorCodeToString

\* getValidxfailCodes: every registered code but SUCCESS and
\* REGEX_MISMATCH_ERROR.
getValidxfailCodes ==
    { num \in DOMAIN errorCodeToString :
        ~(num = SUCCESS \/ num = REGEX_MISMATCH_ERROR) }

\* The match rules of the tests of the model (keys of self.regex).
RegexKeys == { "r1", "r2" }

\* What parsing can produce: expected code and match rules.
TestKinds ==
    { [ expectedReturnCode |-> SUCCESS, regexKeys |-> {} ],
      [ expectedReturnCode |-> TIMEOUT, regexKeys |-> RegexKeys ] }

\* Every expected code parsing accepts ("//pass" or "//xfail:<CODE>"), with
\* every set of rules: the tests run() is called on directly.
AllTestKinds ==
    { [ expectedReturnCode |-> e, regexKeys |-> ks ] :
        e \in {SUCCESS} \cup getValidxfailCodes, ks \in SUBSET RegexKeys }

\* An __init__ that leaves testPassed False where the code leaves it None.
NewTestAlreadyFailed(kind) ==
    [ expectedReturnCode  |-> kind.expectedReturnCode,
      regex               |-> [ k \in kind.regexKeys |-> None ],
      testPassed          |-> False,
      returnedCode        |-> << >>,
      gpuverifyReturnCode |-> << >> ]

\* The object __init__ leaves behind: rules unknown, result fields unset.
NewTest(kind) ==
    [ expectedReturnCode  |-> kind.expectedReturnCode,
      regex               |-> [ k \in kind.regexKeys |-> None ],
      testPassed          |-> None,
      returnedCode        |-> << >>,
      gpuverifyReturnCode |-> << >> ]

\* The exit codes the tool returns in the model; the last is in no registry.
ToolExitCodes == { SUCCESS, TIMEOUT, CTRL_C, REGEX_MISMATCH_ERROR + 1 }

\* What one invocation of the tool can do: subprocess.Popen raises, or the
\* tool exits with a code and an output in which some of the rules are found.
ToolOutcomes(test, codes) ==
    { [ launched |-> FALSE, code |-> SUCCESS, matched |-> {} ] } \cup
    { [ launched |-> TRUE, code |-> c, matched |-> m ] :
        c \in codes, m \in SUBSET DOMAIN test.regex }

\* Every registered code, and two codes past the registry.
AllToolExitCodes ==
    DOMAIN errorCodeToString \cup { REGEX_MISMATCH_ERROR + 1, 0 - 1 }

hasBeenExecuted(test) == test.testPassed # None

\* run(): the regex tests, done only if the tool returned the expected code.
\* matched: the rules that matcher.search finds in the captured output.
DoRegexTests(test, code, matched) ==
    IF code = test.expectedReturnCode
    THEN [ k \in DOMAIN test.regex |-> IF k \in matched THEN True ELSE False ]
    ELSE test.regex

\* A run() that forgets the match rules when it records the return code.
RecordReturnedCodeRaw(regex, code) == code

\* run(): the test return code.
RecordReturnedCode(regex, code) ==
    IF \E k \in DOMAIN regex : regex[k] = False
    THEN REGEX_MISMATCH_ERROR
    ELSE code

\* A run() that compares the return code with SUCCESS, not the expected code.
CheckTestPassedAgainstSuccess(returnedCode, expectedReturnCode) ==
    IF returnedCode # SUCCESS THEN False ELSE True

\* run(): the overall verdict.
CheckTestPassed(returnedCode, expectedReturnCode) ==
    IF returnedCode # expectedReturnCode THEN False ELSE True

\* run() as a whole.  launched = FALSE: subprocess.Popen raises OSError, which
\* run() does not catch.  A code that is no key of errorCodeToString raises
\* KeyError in the logging.debug call that follows the first assignment.
\* The result is the test as run() leaves it and whether run() raised.
RunTest(test, launched, code, matched) ==
    IF ~launched
    THEN [ test |-> test, raised |-> TRUE ]
    ELSE IF code \notin DOMAIN errorCodeToString
    THEN [ test |-> [ test EXCEPT !.gpuverifyReturnCode = << code >> ],
           raised |-> TRUE ]
    ELSE LET regex == DoRegexTests(test, code, matched)
             returnedCode == RecordReturnedCode(regex, code)
         IN  [ test |-> [ test EXCEPT
                            !.gpuverifyReturnCode = << code >>,
                            !.regex = regex,
                            !.returnedCode = << returnedCode >>,
                            !.testPassed =
                                CheckTestPassed(returnedCode,
                                                test.expectedReturnCode) ],
               raised |-> FALSE ]

-----------------------------------------------------------------------------
(* Queue.Queue, Worker and ThreadPool.                                     *)

Workers == 1 .. numberOfThreads

\* A get() that hands out the item put last.
QueueLast(q) == q[Len(q)]

\* Queue.get: the item handed out, and the queue it leaves.
QueueHead(q) == Head(q)

\* A get() that hands out the head and leaves it in the queue.
QueueRestKeepsHead(q) == q

QueueRest(q) == Tail(q)

\* A CTRL_C test with the comparison the wrong way round.
SawCtrlCInverted(test) == test.gpuverifyReturnCode # << CTRL_C >>

\* Worker.run line 509: the test that triggers the drain.
SawCtrlC(test) == test.gpuverifyReturnCode = << CTRL_C >>

\* A join() that waits for the queue to be empty, not for the tasks.
QueueIsEmpty == theQueue = << >>

\* Queue.join's condition: all_tasks_done.
AllTasksDone == unfinished_tasks = 0

\* main: threadPool.addTest(test) for the next test of the list.
AddTest ==
    /\ mainPc = "add"
    /\ Len(theQueue) < Len(tests)
    /\ theQueue' = Append(theQueue, Len(theQueue) + 1)
    /\ unfinished_tasks' = unfinished_tasks + 1
    /\ UNCHANGED << numberOfThreads, tests, wpc, wtest, mainPc, runCount,
                    queuedAtInterrupt >>
    /\ UNCHANGED notPoolVars

\* main: threadPool.start(), after the last addTest.
Start ==
    /\ mainPc = "add"
    /\ Len(theQueue) = Len(tests)
    /\ wpc' = [ w \in Workers |-> "get" ]
    /\ mainPc' = "wait"
    /\ UNCHANGED << numberOfThreads, tests, theQueue, unfinished_tasks, wtest,
                    runCount, queuedAtInterrupt >>
    /\ UNCHANGED notPoolVars

\* main: threadPool.waitForCompletion() returns.
WaitForCompletion ==
    /\ mainPc = "wait"
    /\ AllTasksDone
    /\ mainPc' = "done"
    /\ UNCHANGED << numberOfThreads, tests, theQueue, unfinished_tasks, wpc,
                    wtest, runCount, queuedAtInterrupt >>
    /\ UNCHANGED notPoolVars

\* Worker.run line 500: test = self.theQueue.get(block=True), blocking while
\* the queue is empty.
Get(w) ==
    /\ wpc[w] = "get"
    /\ theQueue # << >>
    /\ wtest' = [ wtest EXCEPT ![w] = QueueHead(theQueue) ]
    /\ theQueue' = QueueRest(theQueue)
    /\ wpc' = [ wpc EXCEPT ![w] = "run" ]
    /\ UNCHANGED << numberOfThreads, tests, unfinished_tasks, mainPc, runCount,
                    queuedAtInterrupt >>
    /\ UNCHANGED notPoolVars

\* Worker.run lines 501-510: test.run(); if it returns, task_done() and then
\* the CTRL_C test.  An exception of run() ends the thread before task_done().
\* run() works on the test's own fields only, so its return and the
\* task_done() that follows it are one step.  Nothing reads the local "test"
\* after the CTRL_C test, so the model forgets it there.
Run(w) ==
    /\ wpc[w] = "run"
    /\ runCount' = [ runCount EXCEPT ![wtest[w]] = @ + 1 ]
    /\ \E o \in ToolOutcomes(tests[wtest[w]], ToolExitCodes) :
         LET r == RunTest(tests[wtest[w]], o.launched, o.code, o.matched)
         IN  /\ tests' = [ tests EXCEPT ![wtest[w]] = r.test ]
             /\ IF r.raised
                THEN /\ wpc' = [ wpc EXCEPT ![w] = "dead" ]
                     /\ UNCHANGED << unfinished_tasks, wtest, queuedAtInterrupt >>
                ELSE /\ unfinished_tasks' = unfinished_tasks - 1
                     /\ wtest' = [ wtest EXCEPT ![w] = 0 ]
                     /\ IF SawCtrlC(r.test)
                        THEN /\ wpc' = [ wpc EXCEPT ![w] = "drain" ]
                             /\ queuedAtInterrupt' = queuedAtInterrupt \cup
                                   { theQueue[i] : i \in 1 .. Len(theQueue) }
                        ELSE /\ wpc' = [ wpc EXCEPT ![w] = "get" ]
                             /\ UNCHANGED queuedAtInterrupt
    /\ UNCHANGED << numberOfThreads, theQueue, mainPc >>
    /\ UNCHANGED notPoolVars

\* Worker.run line 514: self.theQueue.get() in the drain loop.  It blocks
\* while the queue is empty, so Queue.Empty is never raised.
DrainGet(w) ==
    /\ wpc[w] = "drain"
    /\ theQueue # << >>
    /\ theQueue' = QueueRest(theQueue)
    /\ wpc' = [ wpc EXCEPT ![w] = "drained" ]
    /\ UNCHANGED << numberOfThreads, tests, unfinished_tasks, wtest, mainPc,
                    runCount, queuedAtInterrupt >>
    /\ UNCHANGED notPoolVars

\* Worker.run line 515: self.theQueue.task_done() in the drain loop.
DrainTaskDone(w) ==
    /\ wpc[w] = "drained"
    /\ unfinished_tasks' = unfinished_tasks - 1
    /\ wpc' = [ wpc EXCEPT ![w] = "drain" ]
    /\ UNCHANGED << numberOfThreads, tests, theQueue, wtest, mainPc, runCount,
                    queuedAtInterrupt >>
    /\ UNCHANGED notPoolVars

WorkerStep(w) ==
    \/ Get(w)
    \/ Run(w)
    \/ DrainGet(w)
    \/ DrainTaskDone(w)

MainStep ==
    \/ AddTest
    \/ Start
    \/ WaitForCompletion


-----------------------------------------------------------------------------
(* GPUVerifyTestKernel.run called on one test.                             *)

\* test.run() on a freshly parsed test, with the tool doing o.
RunOnce ==
    /\ runPc = "parsed"
    /\ \E o \in ToolOutcomes(kernel, AllToolExitCodes) :
         LET r == RunTest(kernel, o.launched, o.code, o.matched)
         IN  /\ kernel' = r.test
             /\ toolOutcome' = o
             /\ runPc' = IF r.raised THEN "raised" ELSE "returned"
    /\ UNCHANGED notRunVars

-----------------------------------------------------------------------------
(* getCanonicalTestName and doComparison.                                  *)

\* args.canonical_path_prefix; "ts" stands for the default "testsuite".
canonicalPathPrefix == << "t", "s" >>

\* The paths of the model, in the order kernelFiles.sort() puts them in:
\* /a/ts/x, /a/ts/y, /c/x (no prefix), \b\ts\x (the first, on Windows).
PathList ==
    << << "/", "a", "/", "t", "s", "/", "x" >>,
       << "/", "a", "/", "t", "s", "/", "y" >>,
       << "/", "c", "/", "x" >>,
       << "\\", "b", "\\", "t", "s", "\\", "x" >> >>

\* path.index(prefix): the first position prefix occurs at, 0 for ValueError.
Index(path, prefix) ==
    LET hits == { i \in 1 .. Len(path) - Len(prefix) + 1 :
                    SubSeq(path, i, i + Len(prefix) - 1) = prefix }
    IN  IF hits = {} THEN 0
        ELSE CHOOSE i \in hits : \A j \in hits : i <= j

\* A replace that leaves the path as it is.
ReplaceNothing(p) == p

\* cPath.replace('\\', '/')
ReplaceSlashes(p) == [ i \in 1 .. Len(p) |-> IF p[i] = "\\" THEN "/" ELSE p[i] ]

\* getCanonicalTestName: the path from the prefix on, or CanonicalisationError.
getCanonicalTestName(path, prefix) ==
    IF Index(path, prefix) = 0
    THEN [ raised |-> TRUE, cPath |-> << >> ]
    ELSE [ raised |-> FALSE,
           cPath |-> ReplaceSlashes(SubSeq(path, Index(path, prefix), Len(path))) ]

\* doComparison lines 384-388: the key a test is filed under.
DicKey(test, prefix) ==
    LET c == getCanonicalTestName(test.path, prefix)
    IN  IF c.raised THEN test.path ELSE c.cPath

\* getCanonicalTestName(path, prefix) is called as doComparison calls it, the
\* CanonicalisationError caught and the raw path taken in its place.
Canonicalise ==
    /\ canonPc = "idle"
    /\ canonOut' =
         [ raised |-> getCanonicalTestName(canonIn.path, canonIn.prefix).raised,
           cPath  |-> getCanonicalTestName(canonIn.path, canonIn.prefix).cPath,
           key    |-> DicKey([ path |-> canonIn.path ], canonIn.prefix) ]
    /\ canonPc' = "done"
    /\ UNCHANGED canonIn
    /\ UNCHANGED notCanonVars

\* testDictionary[cPath] = test
DicPut(dic, key, test) ==
    [ k \in DOMAIN dic \cup {key} |-> IF k = key THEN test ELSE dic[k] ]

\* doComparison lines 382-390: the dictionary of one run, built in list order.
RECURSIVE BuildDic(_, _, _)
BuildDic(dic, testList, prefix) ==
    IF testList = << >> THEN dic
    ELSE BuildDic(DicPut(dic, DicKey(Head(testList), prefix), Head(testList)),
                  Tail(testList), prefix)

\* A comparison that only looks at tests executed in both runs.
ResultChangedIfExecuted(oldTest, newTest) ==
    /\ oldTest.testPassed # None
    /\ newTest.testPassed # None
    /\ oldTest.testPassed # newTest.testPassed

\* doComparison line 403: the result has changed.
ResultChanged(oldTest, newTest) == oldTest.testPassed # newTest.testPassed

\* A comparison for which every change is for the worse.
ChangeIsAlwaysForWorse(oldTest) == TRUE

\* A truth test of oldTest.testPassed that takes all but False for true.
ChangeIsForWorseUnlessFailed(oldTest) == oldTest.testPassed # False

\* doComparison line 412: the change is for the worse.
ChangeIsForWorse(oldTest) == oldTest.testPassed = True

\* A loop body that counts an absent test as missing only if it had passed.
OldTestStepPassedOnly(acc, cPath, oldTest, newTestDic) ==
    IF cPath \in DOMAIN newTestDic
    THEN IF ResultChanged(oldTest, newTestDic[cPath])
         THEN [ acc EXCEPT !.changed = @ + 1,
                           !.worse = @ \/ ChangeIsForWorse(oldTest) ]
         ELSE acc
    ELSE IF oldTest.testPassed = True
         THEN [ acc EXCEPT !.missing = @ + 1, !.worse = TRUE ]
         ELSE acc

\* doComparison lines 397-417: one round of the loop over oldTestDic.items().
OldTestStep(acc, cPath, oldTest, newTestDic) ==
    IF cPath \in DOMAIN newTestDic
    THEN IF ResultChanged(oldTest, newTestDic[cPath])
         THEN [ acc EXCEPT !.changed = @ + 1,
                           !.worse = @ \/ ChangeIsForWorse(oldTest) ]
         ELSE acc
    ELSE [ acc EXCEPT !.missing = @ + 1, !.worse = TRUE ]

\* doComparison lines 397-417: the loop over oldTestDic.items().
RECURSIVE OldTestLoop(_, _, _, _)
OldTestLoop(acc, keys, oldTestDic, newTestDic) ==
    IF keys = {} THEN acc
    ELSE LET cPath == CHOOSE k \in keys : TRUE
         IN  OldTestLoop(OldTestStep(acc, cPath, oldTestDic[cPath], newTestDic),
                         keys \ {cPath}, oldTestDic, newTestDic)

\* A loop over the new tests that counts every one of them as new.
NewTestLoopCountsAll(counter, keys, oldTestDic) == counter + Cardinality(keys)

\* doComparison lines 421-424: the loop over newTestDic.keys().
RECURSIVE NewTestLoop(_, _, _)
NewTestLoop(counter, keys, oldTestDic) ==
    IF keys = {} THEN counter
    ELSE LET cPath == CHOOSE k \in keys : TRUE
         IN  NewTestLoop(IF cPath \notin DOMAIN oldTestDic
                         THEN counter + 1 ELSE counter,
                         keys \ {cPath}, oldTestDic)

\* doComparison lines 435-443: the value returned.
Verdict(changeIsWorse, changed, missing, new) ==
    IF changeIsWorse THEN 1
    ELSE IF changed = 0 /\ missing = 0 /\ new = 0 THEN 0
    ELSE 0 - 1

EmptyDic == [ k \in {} |-> 0 ]

\* doComparison: the three counters and the value returned.
doComparison(oldList, newList, prefix) ==
    LET oldTestDic == BuildDic(EmptyDic, oldList, prefix)
        newTestDic == BuildDic(EmptyDic, newList, prefix)
        acc == OldTestLoop([ changed |-> 0, missing |-> 0, worse |-> FALSE ],
                           DOMAIN oldTestDic, oldTestDic, newTestDic)
        newTestCounter == NewTestLoop(0, DOMAIN newTestDic, oldTestDic)
    IN  [ changed |-> acc.changed,
          missing |-> acc.missing,
          new     |-> newTestCounter,
          verdict |-> Verdict(acc.worse, acc.changed, acc.missing,
                              newTestCounter) ]

RECURSIVE Ascending(_)
Ascending(S) ==
    IF S = {} THEN << >>
    ELSE LET m == CHOOSE i \in S : \A j \in S : i <= j
         IN  << m >> \o Ascending(S \ {m})

\* The recorded runs of the model: main builds "tests" from the sorted list
\* of distinct paths, so a run is an ascending choice of paths, each test
\* unexecuted (None), passed or failed.
RunRecords ==
    UNION { { [ i \in 1 .. Cardinality(S) |->
                  [ path |-> PathList[Ascending(S)[i]],
                    testPassed |-> f[Ascending(S)[i]] ] ] :
              f \in [ S -> { None, True, False } ] } :
            S \in { T \in SUBSET (1 .. Len(PathList)) :
                      Cardinality(T) <= MaxRunLen } }

\* doComparison(oldTests, ..., tests, ...) is called and returns.
DoComparison ==
    /\ cmpPc = "idle"
    /\ cmpResult' = doComparison(oldTestList, newTestList, canonicalPathPrefix)
    /\ cmpPc' = "done"
    /\ UNCHANGED << oldTestList, newTestList, cmpMode >>
    /\ UNCHANGED notCmpVars

\* enum(*sequential): sequential[i] => i, counted from 0.
enum(sequential) ==
    [ name \in { sequential[i] : i \in 1 .. Len(sequential) } |->
        (CHOOSE i \in 1 .. Len(sequential) : sequential[i] = name) - 1 ]

\* The exit statuses of gvtester.py by name.
GPUVerifyTesterErrorCodes ==
    enum(<< "SUCCESS", "FILE_SEARCH_ERROR", "KERNEL_PARSE_ERROR", "TEST_FAILED",
            "FILE_OPEN_ERROR", "GENERAL_ERROR" >>)

\* comparePickleFiles lines 343-344: sys.exit after the comparison.
ExitOfComparePickles(result) ==
    IF result \in { 0 - 1, 0 } THEN GPUVerifyTesterErrorCodes.SUCCESS ELSE 1

\* gvtester.py -c old new: the comparison, then sys.exit.
ComparePickleFiles ==
    /\ cmpMode = "compare-pickles"
    /\ DoComparison
    /\ exitStatus' = << ExitOfComparePickles(cmpResult'.verdict) >>

\* gvtester.py -r old: main's last lines, after the tests ran.  The value of
\* doComparison is dropped and main returns SUCCESS to sys.exit.
CompareRun ==
    /\ cmpMode = "compare-run"
    /\ DoComparison
    /\ exitStatus' = << GPUVerifyTesterErrorCodes.SUCCESS >>

-----------------------------------------------------------------------------
(* GPUVerifyTestKernel.__init__: the parser of a kernel file.  A string is *)
(* a sequence of one-character strings; a file is the sequence of its      *)
(* lines, each with its "\n" except possibly the last.                     *)

\* The letters, for str.upper, str.lower and re.IGNORECASE.
UpperCase ==
    << "A", "B", "C", "D", "E", "F", "G", "H", "I", "J", "K", "L", "M",
       "N", "O", "P", "Q", "R", "S", "T", "U", "V", "W", "X", "Y", "Z" >>

LowerCase ==
    << "a", "b", "c", "d", "e", "f", "g", "h", "i", "j", "k", "l", "m",
       "n", "o", "p", "q", "r", "s", "t", "u", "v", "w", "x", "y", "z" >>

Digits == { "0", "1", "2", "3", "4", "5", "6", "7", "8", "9" }

Letters == { UpperCase[i] : i \in 1 .. 26 } \cup { LowerCase[i] : i \in 1 .. 26 }

\* str.upper()
upper(s) ==
    [ i \in 1 .. Len(s) |->
        IF \E k \in 1 .. 26 : LowerCase[k] = s[i]
        THEN UpperCase[CHOOSE k \in 1 .. 26 : LowerCase[k] = s[i]]
        ELSE s[i] ]

\* str.lower()
lower(s) ==
    [ i \in 1 .. Len(s) |->
        IF \E k \in 1 .. 26 : UpperCase[k] = s[i]
        THEN LowerCase[CHOOSE k \in 1 .. 26 : UpperCase[k] = s[i]]
        ELSE s[i] ]

\* str.startswith(prefix)
startswith(s, prefix) ==
    /\ Len(prefix) <= Len(s)
    /\ SubSeq(s, 1, Len(prefix)) = prefix

\* s[n:], n counted from 0
From(s, n) == SubSeq(s, n + 1, Len(s))

\* The attribute names of GPUVerifyErrorCodes, spelled out.
NameChars ==
    [ SUCCESS |->
        << "S", "U", "C", "C", "E", "S", "S" >>,
      COMMAND_LINE_ERROR |->
        << "C", "O", "M", "M", "A", "N", "D", "_", "L", "I", "N", "E", "_", "E", "R", "R", "O", "R" >>,
      CLANG_ERROR |->
        << "C", "L", "A", "N", "G", "_", "E", "R", "R", "O", "R" >>,
      OPT_ERROR |->
        << "O", "P", "T", "_", "E", "R", "R", "O", "R" >>,
      BUGLE_ERROR |->
        << "B", "U", "G", "L", "E", "_", "E", "R", "R", "O", "R" >>,
      GPUVERIFYVCGEN_ERROR |->
        << "G", "P", "U", "V", "E", "R", "I", "F", "Y", "V", "C", "G", "E", "N", "_", "E", "R", "R", "O", "R" >>,
      BOOGIE_ERROR |->
        << "B", "O", "O", "G", "I", "E", "_", "E", "R", "R", "O", "R" >>,
      TIMEOUT |->
        << "T", "I", "M", "E", "O", "U", "T" >>,
      CTRL_C |->
        << "C", "T", "R", "L", "_", "C" >>,
      CONFIGURATION_ERROR |->
        << "C", "O", "N", "F", "I", "G", "U", "R", "A", "T", "I", "O", "N", "_", "E", "R", "R", "O", "R" >>,
      REGEX_MISMATCH_ERROR |->
        << "R", "E", "G", "E", "X", "_", "M", "I", "S", "M", "A", "T", "C", "H", "_", "E", "R", "R", "O", "R" >> ]

\* getattr(GPUVerifyErrorCodes, name) for a name that is an attribute.
CodeNamed(name) ==
    CHOOSE num \in DOMAIN errorCodeToString :
        NameChars[errorCodeToString[num]] = name

\* [ t[1] for t in GPUVerifyErrorCodes.getValidxfailCodes() ]
ValidxfailNames ==
    { NameChars[errorCodeToString[num]] : num \in getValidxfailCodes }

\* The length of the longest run of [A-Z_] (re.IGNORECASE) s starts with.
RECURSIVE CodeRun(_)
CodeRun(s) ==
    IF s # << >> /\ (Head(s) \in Letters \/ Head(s) = "_")
    THEN 1 + CodeRun(Tail(s))
    ELSE 0

\* regexOutcome.match(line) for r'^//(pass|xfail:([A-Z_]+))', re.IGNORECASE:
\* whether it matched, group(1) and group(2).
MatchOutcome(line) ==
    LET rest == From(line, 2)
        code == SubSeq(rest, 7, 6 + CodeRun(From(rest, 6)))
    IN  IF ~startswith(line, << "/", "/" >>)
        THEN [ matched |-> FALSE, group1 |-> << >>, group2 |-> << >> ]
        ELSE IF startswith(lower(rest), << "p", "a", "s", "s" >>)
        THEN [ matched |-> TRUE, group1 |-> SubSeq(rest, 1, 4),
               group2 |-> << >> ]
        ELSE IF /\ startswith(lower(rest), << "x", "f", "a", "i", "l", ":" >>)
                /\ code # << >>
        THEN [ matched |-> TRUE, group1 |-> SubSeq(rest, 1, 6) \o code,
               group2 |-> code ]
        ELSE [ matched |-> FALSE, group1 |-> << >>, group2 |-> << >> ]

\* __init__ lines 97-113: the first line.  raised is "none" or the class of
\* the exception; a KernelParseError carries its line number.
ParseOutcomeLine(line) ==
    LET m == MatchOutcome(line)
    IN  IF ~m.matched
        THEN [ raised |-> "KernelParseError", lineNumber |-> 1,
               expectedReturnCode |-> SUCCESS ]
        ELSE IF lower(m.group1) = << "p", "a", "s", "s" >>
        THEN [ raised |-> "none", lineNumber |-> 0,
               expectedReturnCode |-> SUCCESS ]
        ELSE IF upper(m.group2) \in ValidxfailNames
        THEN [ raised |-> "none", lineNumber |-> 0,
               expectedReturnCode |-> CodeNamed(upper(m.group2)) ]
        ELSE [ raised |-> "KernelParseError", lineNumber |-> 1,
               expectedReturnCode |-> SUCCESS ]

-----------------------------------------------------------------------------

(* GPUVerifyTestKernel.__init__: the second line and the match rules.      *)

Whitespace == { " ", "\t", "\n", "\r" }

\* The length of the run of non-whitespace characters s starts with.
RECURSIVE TokenLen(_)
TokenLen(s) ==
    IF s # << >> /\ Head(s) \notin Whitespace
    THEN 1 + TokenLen(Tail(s))
    ELSE 0

\* str.strip()
RECURSIVE strip(_)
strip(s) ==
    IF s = << >> THEN s
    ELSE IF Head(s) \in Whitespace THEN strip(Tail(s))
    ELSE IF s[Len(s)] \in Whitespace THEN strip(SubSeq(s, 1, Len(s) - 1))
    ELSE s

\* str.split(): the runs of non-whitespace characters, in order.
RECURSIVE split(_)
split(s) ==
    IF s = << >> THEN << >>
    ELSE IF Head(s) \in Whitespace THEN split(Tail(s))
    ELSE << SubSeq(s, 1, TokenLen(s)) >> \o split(From(s, TokenLen(s)))

\* The length of the run of [_a-z0-9] (re.IGNORECASE) s starts with.
RECURSIVE IdTailLen(_)
IdTailLen(s) ==
    IF s # << >> /\ (Head(s) \in Letters \/ Head(s) \in Digits \/ Head(s) = "_")
    THEN 1 + IdTailLen(Tail(s))
    ELSE 0

\* The length of the identifier [_a-z][_a-z0-9]* s starts with, 0 for none.
IdLen(s) ==
    IF s # << >> /\ (Head(s) \in Letters \/ Head(s) = "_")
    THEN 1 + IdTailLen(Tail(s))
    ELSE 0

\* string.Template(s).substitute(mapping): "$$" is a dollar, "$name" and
\* "${name}" are mapping[name] (KeyError without one), any other "$" is a
\* ValueError; the placeholders are handled from left to right.
RECURSIVE substitute(_, _)
substitute(s, mapping) ==
    LET Ok(chars, restOut) ==
            IF restOut.raised = "none"
            THEN [ raised |-> "none", out |-> chars \o restOut.out ]
            ELSE restOut
        Named(name, after) ==
            IF name \in DOMAIN mapping
            THEN Ok(mapping[name], substitute(after, mapping))
            ELSE [ raised |-> "KeyError", out |-> << >> ]
        r == Tail(s)
    IN  IF s = << >> THEN [ raised |-> "none", out |-> << >> ]
        ELSE IF Head(s) # "$" THEN Ok(<< Head(s) >>, substitute(r, mapping))
        ELSE IF r # << >> /\ Head(r) = "$"
        THEN Ok(<< "$" >>, substitute(Tail(r), mapping))
        ELSE IF IdLen(r) > 0
        THEN Named(SubSeq(r, 1, IdLen(r)), From(r, IdLen(r)))
        ELSE IF /\ r # << >> /\ Head(r) = "{"
                /\ IdLen(Tail(r)) > 0
                /\ Len(r) >= IdLen(Tail(r)) + 2
                /\ r[IdLen(Tail(r)) + 2] = "}"
        THEN Named(SubSeq(r, 2, IdLen(Tail(r)) + 1), From(r, IdLen(Tail(r)) + 2))
        ELSE [ raised |-> "ValueError", out |-> << >> ]

\* os.path.dirname(path) for a POSIX path.
dirname(path) ==
    LET slashes == { i \in 1 .. Len(path) : path[i] = "/" }
        i == IF slashes = {} THEN 0
             ELSE CHOOSE k \in slashes : \A j \in slashes : j <= k
        head == SubSeq(path, 1, i)
        other == { k \in 1 .. i : head[k] # "/" }
    IN  IF other = {} THEN head
        ELSE SubSeq(head, 1, CHOOSE k \in other : \A j \in other : j <= k)

\* cmdArgsSubstitution
cmdArgsSubstitution(path) ==
    [ name \in { << "K", "E", "R", "N", "E", "L", "_", "D", "I", "R" >> } |->
        dirname(path) ]

\* __init__ lines 129-135: the substitution loop over the arguments, which
\* ends at the first argument substitute raises on; args is the list as the
\* loop leaves it.
RECURSIVE SubstituteArgs(_, _)
SubstituteArgs(list, mapping) ==
    IF list = << >> THEN [ raised |-> "none", args |-> << >> ]
    ELSE LET first == IF \E i \in 1 .. Len(Head(list)) : Head(list)[i] = "$"
                      THEN substitute(Head(list), mapping)
                      ELSE [ raised |-> "none", out |-> Head(list) ]
             rest == SubstituteArgs(Tail(list), mapping)
         IN  IF first.raised # "none"
             THEN [ raised |-> first.raised, args |-> list ]
             ELSE [ raised |-> rest.raised, args |-> << first.out >> \o rest.args ]

\* Whether the parentheses of a pattern are balanced.
RECURSIVE Balanced(_, _)
Balanced(key, depth) ==
    IF key = << >> THEN depth = 0
    ELSE IF Head(key) = "(" THEN Balanced(Tail(key), depth + 1)
    ELSE IF Head(key) = ")" THEN depth > 0 /\ Balanced(Tail(key), depth - 1)
    ELSE Balanced(Tail(key), depth)

\* Whether re.compile(key) raises re.error, for a pattern made of letters,
\* ".", "*", "(" and ")": unbalanced parentheses, or a "*" with nothing
\* before it to repeat.
ReCompileRaises(key) ==
    \/ ~Balanced(key, 0)
    \/ \E i \in 1 .. Len(key) :
           /\ key[i] = "*"
           /\ (i = 1 \/ key[i - 1] \in { "(", "*" })

\* fileObject.readline() for the k-th time: the line, "" at the end of file.
readline(file, k) == IF k <= Len(file) THEN file[k] ELSE << >>

\* __init__ lines 142-159: the loop over the match-rule lines, from the
\* lineCounter-th line on.  regex is the set of keys of self.regex.
RECURSIVE RegexLines(_, _, _)
RegexLines(file, lineCounter, regex) ==
    LET whole == readline(file, lineCounter)
        line == SubSeq(whole, 1, Len(whole) - 1)
        key == From(line, 2)
    IN  IF startswith(line, << "/", "/" >>) /\ Len(line) > 2
        THEN IF ReCompileRaises(key)
             THEN [ raised |-> "KernelParseError", lineNumber |-> lineCounter,
                    regex |-> regex \cup {key} ]
             ELSE RegexLines(file, lineCounter + 1, regex \cup {key})
        ELSE [ raised |-> "none", lineNumber |-> 0, regex |-> regex ]

-----------------------------------------------------------------------------

(* GPUVerifyTestKernel.__init__ as a whole, and main's loop around it.     *)

useCvc4 == << "-", "-", "u", "s", "e", "-", "c", "v", "c", "4" >>

\* GPUVerifyTestKernel(path) on a file with this content: the exception it
\* raised ("none" if it returned), the line number of a KernelParseError, and
\* the attributes of self that were set by then.
GPUVerifyTestKernel(path, file) ==
    LET first == ParseOutcomeLine(readline(file, 1))
        cmdArgs == readline(file, 2)
        list == SubstituteArgs(split(strip(From(cmdArgs, 2))),
                               cmdArgsSubstitution(path))
        rules == RegexLines(file, 3, {})
        self1 == [ path |-> path ]
        self2 == [ path |-> path,
                   expectedReturnCode |-> first.expectedReturnCode ]
        self3(cmdList) ==
                 [ path |-> path,
                   expectedReturnCode |-> first.expectedReturnCode,
                   gpuverifyCmdArgs |-> cmdList ]
        self4 == [ path |-> path,
                   expectedReturnCode |-> first.expectedReturnCode,
                   gpuverifyCmdArgs |-> Append(list.args, useCvc4),
                   regex |-> [ key \in rules.regex |-> None ] ]
        self5 == [ path |-> path,
                   expectedReturnCode |-> first.expectedReturnCode,
                   gpuverifyCmdArgs |-> Append(list.args, useCvc4),
                   regex |-> [ key \in rules.regex |-> None ],
                   testPassed |-> None,
                   returnedCode |-> << >>,
                   gpuverifyReturnCode |-> << >> ]
    IN  IF first.raised # "none"
        THEN [ raised |-> first.raised, lineNumber |-> first.lineNumber,
               self |-> self1 ]
        ELSE IF ~startswith(cmdArgs, << "/", "/" >>)
        THEN [ raised |-> "KernelParseError", lineNumber |-> 2, self |-> self2 ]
        ELSE IF list.raised # "none"
        THEN [ raised |-> list.raised, lineNumber |-> 0,
               self |-> self3(list.args) ]
        ELSE IF rules.raised # "none"
        THEN [ raised |-> rules.raised, lineNumber |-> rules.lineNumber,
               self |-> self4 ]
        ELSE [ raised |-> "none", lineNumber |-> 0, self |-> self5 ]

\* The destinations of the arguments main's parser defines: the attributes
\* of args.
ArgsAttributes ==
    { "directory", "list_xfail_codes", "read_pickle", "compare_pickles",
      "kernel_regex", "log_level", "write_pickle", "canonical_path_prefix",
      "compare_run", "threads", "run_only_pass", "run_only_xfail" }

\* The path of the i-th kernel file found: /ts/<i>/k.cl
KernelPathOf(i) ==
    << "/", "t", "s", "/" >> \o << << "1", "2", "3", "4", "5" >>[i] >>
        \o << "/", "k", ".", "c", "l" >>

\* main lines 620-626: one round of the loop over kernelFiles.  A test that
\* was parsed is appended to tests.  A KernelParseError is logged, and then
\* args.stop_on_fail is read: args has no such attribute, so AttributeError
\* is raised.  It, and any other exception of the constructor, leaves main
\* and the interpreter exits with status 1.
ParseKernel ==
    /\ mainStage = "parse"
    /\ parsePc = "parsing"
    /\ parseIndex < Len(kernelFiles)
    /\ LET k == GPUVerifyTestKernel(KernelPathOf(parseIndex + 1),
                                    kernelFiles[parseIndex + 1])
       IN  /\ parseOut' = k
           /\ parseIndex' = parseIndex + 1
           /\ IF k.raised = "none"
              THEN /\ parsed' = Append(parsed, k.self)
                   /\ parsePc' = "parsing"
                   /\ UNCHANGED << exitStatus, mainStage, exitCause >>
              ELSE /\ UNCHANGED parsed
                   /\ mainStage' = "exited"
                   /\ exitCause' = "exception"
                   /\ parsePc' =
                        IF k.raised # "KernelParseError" THEN k.raised
                        ELSE IF "stop_on_fail" \notin ArgsAttributes
                        THEN "AttributeError"
                        ELSE "KernelParseError"
                   /\ exitStatus' = << 1 >>
    /\ did' = did \cup { "parse" }
    /\ UNCHANGED << kernelFiles, args, isdir, comparedAs >>
    /\ UNCHANGED notParseVars

-----------------------------------------------------------------------------

(* main: the command line, the checks, discovery, and the return.          *)

MaxThreadsAllowed == 50

\* The values doComparison returns.
Verdicts ==
    { Verdict(worse, changed, 0, 0) : worse \in BOOLEAN, changed \in 0 .. 1 }

\* The process ends with this status.
Exit(status, cause) ==
    /\ mainStage' = "exited"
    /\ exitStatus' = << status >>
    /\ exitCause' = cause

\* main line 572: the write target is the compare target.
SameTarget(write_pickle, compare_run) ==
    write_pickle = compare_run /\ write_pickle # ""

\* A ceiling on the threads that is one too high.
TooManyThreadsByTwo(threads) == threads > MaxThreadsAllowed + 1

\* main line 577: the number of threads is over the ceiling.
TooManyThreads(threads) == threads > MaxThreadsAllowed

\* parser.parse_args(): an action option runs its Action, which ends the
\* process: --list-xfail-codes prints the codes, --read-pickle dumps a saved
\* run, -c compares two saved runs; openPickle ends the process itself when
\* a file cannot be read.  Without one, parse_args returns args.
ParseArgs ==
    /\ mainStage = "parse_args"
    /\ \/ /\ args.action = "list-xfail-codes"
          /\ Exit(GPUVerifyTesterErrorCodes.SUCCESS, "list-xfail-codes")
          /\ UNCHANGED << comparedAs, did >>
       \/ /\ args.action \in { "read-pickle", "compare-pickles" }
          /\ Exit(GPUVerifyTesterErrorCodes.FILE_OPEN_ERROR, "pickle")
          /\ UNCHANGED << comparedAs, did >>
       \/ /\ args.action = "read-pickle"
          /\ Exit(GPUVerifyTesterErrorCodes.SUCCESS, "read-pickle")
          /\ did' = did \cup { "load" }
          /\ UNCHANGED comparedAs
       \/ /\ args.action = "compare-pickles"
          /\ \E v \in Verdicts :
               /\ comparedAs' = << v >>
               /\ Exit(ExitOfComparePickles(v), "compare-pickles")
          /\ did' = did \cup { "load" }
       \/ /\ args.action = "none"
          /\ mainStage' = "check"
          /\ UNCHANGED << exitStatus, exitCause, comparedAs, did >>
    /\ UNCHANGED << args, isdir >>
    /\ UNCHANGED << parseVars, notMainVars >>

\* main lines 571-579: the two checks of the arguments.
CheckArguments ==
    /\ mainStage = "check"
    /\ IF SameTarget(args.write_pickle, args.compare_run)
       THEN Exit(GPUVerifyTesterErrorCodes.GENERAL_ERROR, "configuration")
       ELSE IF TooManyThreads(args.threads)
       THEN Exit(GPUVerifyTesterErrorCodes.GENERAL_ERROR, "configuration")
       ELSE /\ mainStage' = "load"
            /\ UNCHANGED << exitStatus, exitCause >>
    /\ UNCHANGED << args, isdir, comparedAs, did >>
    /\ UNCHANGED << parseVars, notMainVars >>

\* main lines 581-583: the old run is read if --compare-run names one.
LoadOldTests ==
    /\ mainStage = "load"
    /\ IF args.compare_run = ""
       THEN /\ mainStage' = "discover"
            /\ UNCHANGED << exitStatus, exitCause, did >>
       ELSE \/ /\ mainStage' = "discover"
               /\ did' = did \cup { "load" }
               /\ UNCHANGED << exitStatus, exitCause >>
            \/ /\ Exit(GPUVerifyTesterErrorCodes.FILE_OPEN_ERROR, "pickle")
               /\ UNCHANGED did
    /\ UNCHANGED << args, isdir, comparedAs >>
    /\ UNCHANGED << parseVars, notMainVars >>

\* main lines 585-619: the directory is walked for kernel files.
Discover ==
    /\ mainStage = "discover"
    /\ IF ~isdir
       THEN /\ Exit(GPUVerifyTesterErrorCodes.FILE_SEARCH_ERROR, "discovery")
            /\ UNCHANGED << did, parsePc >>
       ELSE /\ did' = did \cup { "discover" }
            /\ IF Len(kernelFiles) = 0
               THEN /\ Exit(GPUVerifyTesterErrorCodes.FILE_SEARCH_ERROR,
                            "discovery")
                    /\ UNCHANGED parsePc
               ELSE /\ mainStage' = "parse"
                    /\ parsePc' = "parsing"
                    /\ UNCHANGED << exitStatus, exitCause >>
    /\ UNCHANGED << args, isdir, comparedAs >>
    /\ UNCHANGED << kernelFiles, parseIndex, parseOut, parsed >>
    /\ UNCHANGED notMainVars

\* main lines 628-647: the parsed tests are run by the thread pool.
RunTests ==
    /\ mainStage = "parse"
    /\ parsePc = "parsing"
    /\ parseIndex = Len(kernelFiles)
    /\ mainStage' = "finish"
    /\ did' = did \cup { "execute" }
    /\ UNCHANGED << args, isdir, comparedAs, exitStatus, exitCause >>
    /\ UNCHANGED << parseVars, notMainVars >>

\* main lines 649-663: the summary, the comparison with the old run if one
\* was read, its value dropped, and "return SUCCESS".
Finish ==
    /\ mainStage = "finish"
    /\ IF "load" \in did
       THEN \E v \in Verdicts : comparedAs' = << v >>
       ELSE UNCHANGED comparedAs
    /\ Exit(GPUVerifyTesterErrorCodes.SUCCESS, "success")
    /\ UNCHANGED << args, isdir, did >>
    /\ UNCHANGED << parseVars, notMainVars >>

-----------------------------------------------------------------------------
(* summariseTests.                                                         *)

\* str.endswith.
endswith(s, suffix) ==
    /\ Len(suffix) <= Len(s)
    /\ SubSeq(s, Len(s) - Len(suffix) + 1, Len(s)) = suffix

\* summariseTests lines 449-454: the counters before the loop.
NoSummary ==
    [ OpenCLCounter |-> 0, CUDACounter |-> 0, passCounter |-> 0,
      failCounter |-> 0, xfailCounter |-> 0, skipCounter |-> 0 ]

\* A choice of counter that takes every test that did not pass as skipped.
OutcomeCounterSkipsFailures(test) ==
    IF hasBeenExecuted(test) /\ test.testPassed = True
    THEN IF test.returnedCode = << SUCCESS >>
         THEN "passCounter"
         ELSE "xfailCounter"
    ELSE "skipCounter"

\* summariseTests lines 463-474: the outcome counter a test goes to.
OutcomeCounter(test) ==
    IF hasBeenExecuted(test)
    THEN IF test.testPassed = True
         THEN IF test.returnedCode = << SUCCESS >>
              THEN "passCounter"
              ELSE "xfailCounter"
         ELSE "failCounter"
    ELSE "skipCounter"

\* summariseTests lines 457-461: the kernel-type counter a test goes to.
KernelTypeCounter(test) ==
    IF endswith(test.path, << "c", "l" >>)
    THEN "OpenCLCounter"
    ELSE "CUDACounter"

\* summariseTests lines 456-474: the loop over tests, from test i on.
RECURSIVE SummariseLoop(_, _, _)
SummariseLoop(counters, testList, i) ==
    IF i > Len(testList) THEN counters
    ELSE LET type == KernelTypeCounter(testList[i])
             counted == [ counters EXCEPT ![type] = @ + 1 ]
             outcome == OutcomeCounter(testList[i])
         IN  SummariseLoop([ counted EXCEPT ![outcome] = @ + 1 ],
                           testList, i + 1)

\* summariseTests(tests) is called and prints its counters.
SummariseTests ==
    /\ summaryPc = "idle"
    /\ summary' = SummariseLoop(NoSummary, summaryTests, 1)
    /\ summaryPc' = "printed"
    /\ UNCHANGED summaryTests
    /\ UNCHANGED notSummaryVars

-----------------------------------------------------------------------------
(* gvapi.GPUVerifyTool: observers, runOpenCL and runCUDA.                  *)

\* What a call of receive does: it returns, it raises an Exception, or it
\* raises something that is no Exception (KeyboardInterrupt, SystemExit).
ReceiveOutcomes == { "returns", "raises Exception", "raises BaseException" }

\* What is handed to registerObserver: one of two observers and what its
\* receive will do, or an object that is no GPUVerifyObserver.
ObserverObjects ==
    { [ id |-> i, does |-> d ] : i \in { 1, 2 }, d \in ReceiveOutcomes }
      \cup { [ id |-> 0, does |-> "none" ] }

\* The timeouts the run methods are called with; 10 is the default.
Timeouts == { 0 - 1, 0, 1, 10 }

\* What __runTool returns: ( returnCode, message ).  The tool's exit code
\* and output, or -1 and a message when Popen raised OSError.
ToolResponses ==
    { << SUCCESS, "Verified" >>,
      << TIMEOUT, "" >>,
      << 0 - 1, "Internal error. Could not run" >> }

\* A loop over the observers without the try/except around receive.
LastNotifiedUnguarded(obs) ==
    LET stops == { i \in 1 .. Len(obs) : obs[i].does # "returns" }
    IN  IF stops = {} THEN Len(obs)
        ELSE CHOOSE i \in stops : \A j \in stops : i <= j

\* __runCommon lines 205-212: the last observer receive is called on.  An
\* Exception of receive is caught and the loop goes on; anything else that
\* receive raises ends the loop and the call.
LastNotified(obs) ==
    LET stops == { i \in 1 .. Len(obs) : obs[i].does = "raises BaseException" }
    IN  IF stops = {} THEN Len(obs)
        ELSE CHOOSE i \in stops : \A j \in stops : i <= j

\* The receive calls of the loop: observer.receive(source, cmdArgs,
\* response[0], response[1]), in list order.
Notifications(obs, resp) ==
    [ i \in 1 .. LastNotified(obs) |->
        [ observer |-> obs[i].id, returnCode |-> resp[1], output |-> resp[2] ] ]

\* Whether the loop over the observers is left by an exception.
LoopRaises(obs) ==
    \E i \in 1 .. Len(obs) : obs[i].does = "raises BaseException"

\* registerObserver(observer): appended if it is a GPUVerifyObserver, else
\* Exception("Invalid observer").
RegisterObserver ==
    /\ apiPc = "idle"
    /\ Len(observers) < MaxObservers
    /\ \E o \in ObserverObjects :
         IF o.does # "none"
         THEN observers' = Append(observers, o)
         ELSE UNCHANGED observers
    /\ UNCHANGED << timeout, toolResponse, response, received, apiPc >>
    /\ UNCHANGED notApiVars

\* runOpenCL / runCUDA(source, args, timeout): __runCommon as a whole.  The
\* two differ in the suffix of the temporary file only.
RunCommon ==
    /\ apiPc = "idle"
    /\ \E t \in Timeouts, r \in ToolResponses :
         /\ timeout' = t
         /\ IF t <= 0
            THEN /\ apiPc' = "raised"
                 /\ UNCHANGED << toolResponse, response, received >>
            ELSE /\ toolResponse' = r
                 /\ received' = Notifications(observers, r)
                 /\ IF LoopRaises(observers)
                    THEN /\ apiPc' = "raised"
                         /\ UNCHANGED response
                    ELSE /\ apiPc' = "returned"
                         /\ response' = r
    /\ UNCHANGED observers
    /\ UNCHANGED notApiVars

-----------------------------------------------------------------------------

(* The specifications.                                                     *)

NoResult == [ changed |-> 0, missing |-> 0, new |-> 0, verdict |-> 0 ]

NoOutcome == [ launched |-> FALSE, code |-> SUCCESS, matched |-> {} ]

\* The pool's variables while something else runs.
PoolIdle ==
    /\ numberOfThreads = 0
    /\ tests = << >>
    /\ theQueue = << >>
    /\ unfinished_tasks = 0
    /\ wpc = << >>
    /\ wtest = << >>
    /\ mainPc = "add"
    /\ runCount = << >>
    /\ queuedAtInterrupt = {}

RunIdle ==
    /\ kernel = NewTest(CHOOSE kind \in TestKinds : TRUE)
    /\ toolOutcome = NoOutcome
    /\ runPc = "idle"

CmpIdle ==
    /\ oldTestList = << >>
    /\ newTestList = << >>
    /\ cmpPc = "off"
    /\ cmpResult = NoResult
    /\ cmpMode = "none"
    /\ exitStatus = << >>

\* args after parse_args() on a command line that names the directory only.
DefaultArgs ==
    [ action |-> "none", write_pickle |-> "", compare_run |-> "", threads |-> 1 ]

MainIdle ==
    /\ args = DefaultArgs
    /\ isdir = TRUE
    /\ mainStage = "off"
    /\ exitCause = "none"
    /\ comparedAs = << >>
    /\ did = {}

SummaryIdle ==
    /\ summaryTests = << >>
    /\ summary = NoSummary
    /\ summaryPc = "off"

ApiIdle ==
    /\ observers = << >>
    /\ timeout = 10
    /\ toolResponse = << 0, "" >>
    /\ response = << >>
    /\ received = << >>
    /\ apiPc = "off"

NoParseOut == [ raised |-> "none", lineNumber |-> 0, self |-> [ path |-> << >> ] ]

ParseIdle ==
    /\ kernelFiles = << >>
    /\ parseIndex = 0
    /\ parseOut = NoParseOut
    /\ parsed = << >>
    /\ parsePc = "off"

NoCanonOut == [ raised |-> FALSE, cPath |-> << >>, key |-> << >> ]

CanonIdle ==
    /\ canonIn = [ path |-> << >>, prefix |-> canonicalPathPrefix ]
    /\ canonOut = NoCanonOut
    /\ canonPc = "off"

\* The state after ThreadPool(args.threads) in main: tests parsed, queue
\* empty, threads created and not started.  range(numberOfThreads) is empty
\* for 0 and for a negative number of threads.
Init ==
    /\ numberOfThreads \in 0 - 1 .. MaxThreads
    /\ \E K \in 0 .. MaxTests :
         tests \in [ 1 .. K -> { NewTest(kind) : kind \in TestKinds } ]
    /\ theQueue = << >>
    /\ unfinished_tasks = 0
    /\ wpc = [ w \in Workers |-> "idle" ]
    /\ wtest = [ w \in Workers |-> 0 ]
    /\ mainPc = "add"
    /\ runCount = [ t \in 1 .. Len(tests) |-> 0 ]
    /\ queuedAtInterrupt = {}
    /\ SummaryIdle
    /\ ApiIdle
    /\ RunIdle
    /\ CmpIdle
    /\ CanonIdle
    /\ ParseIdle
    /\ MainIdle

Next ==
    \/ AddTest
    \/ Start
    \/ WaitForCompletion
    \/ \E w \in Workers : Get(w)
    \/ \E w \in Workers : Run(w)
    \/ \E w \in Workers : DrainGet(w)
    \/ \E w \in Workers : DrainTaskDone(w)

Spec == Init /\ [][Next]_vars

\* The threads are scheduled fairly: main and every Worker thread keep
\* running while they have a step to take.
FairSpec ==
    /\ Spec
    /\ WF_vars(MainStep)
    /\ \A w \in 1 .. MaxThreads : WF_vars(w \in Workers /\ WorkerStep(w))

-----------------------------------------------------------------------------

\* The kernel files of the summarised runs, in sorted order: an OpenCL
\* kernel, a CUDA kernel and a file a --kernel-regex of the user let in.
SummaryPathList ==
    << << "/", "a", "/", "k", ".", "c", "l" >>,
       << "/", "b", "/", "k", ".", "c", "u" >>,
       << "/", "c", "/", "k", ".", "c" >> >>

\* The test objects a run can leave behind when waitForCompletion() has
\* returned: as parsed (never submitted, or drained), or as a run() that
\* returned left them.
TestsAfterRun ==
    { NewTest(kind) : kind \in TestKinds } \cup
    UNION { { RunTest(NewTest(kind), o.launched, o.code, o.matched).test :
                o \in { x \in ToolOutcomes(NewTest(kind), ToolExitCodes) :
                          ~RunTest(NewTest(kind), x.launched, x.code,
                                   x.matched).raised } } :
            kind \in TestKinds }

\* self.path, set by __init__, next to the fields of the model of run().
WithPath(test, path) ==
    [ path                |-> path,
      expectedReturnCode  |-> test.expectedReturnCode,
      regex               |-> test.regex,
      testPassed          |-> test.testPassed,
      returnedCode        |-> test.returnedCode,
      gpuverifyReturnCode |-> test.gpuverifyReturnCode ]

\* main's list "tests" after the run: distinct paths in sorted order.
SummarisedRuns ==
    UNION { { [ i \in 1 .. Cardinality(S) |->
                  WithPath(f[Ascending(S)[i]],
                           SummaryPathList[Ascending(S)[i]]) ] :
              f \in [ S -> TestsAfterRun ] } :
            S \in { T \in SUBSET (1 .. Len(SummaryPathList)) :
                      Cardinality(T) <= MaxRunLen } }

\* summariseTests on the tests of one run.
InitSummary ==
    /\ PoolIdle
    /\ ApiIdle
    /\ summaryTests \in SummarisedRuns
    /\ summary = NoSummary
    /\ summaryPc = "idle"
    /\ RunIdle
    /\ CmpIdle
    /\ CanonIdle
    /\ ParseIdle
    /\ MainIdle

NextSummary == SummariseTests

SpecSummary == InitSummary /\ [][NextSummary]_vars

-----------------------------------------------------------------------------

\* A GPUVerifyTool after __init__: observers are registered, then one of
\* the run methods is called.
InitApi ==
    /\ PoolIdle
    /\ SummaryIdle
    /\ observers = << >>
    /\ timeout = 10
    /\ toolResponse = << 0, "" >>
    /\ response = << >>
    /\ received = << >>
    /\ apiPc = "idle"
    /\ RunIdle
    /\ CmpIdle
    /\ CanonIdle
    /\ ParseIdle
    /\ MainIdle

NextApi ==
    \/ RegisterObserver
    \/ RunCommon

SpecApi == InitApi /\ [][NextApi]_vars

-----------------------------------------------------------------------------

\* run() on one test.
InitRun ==
    /\ PoolIdle
    /\ SummaryIdle
    /\ ApiIdle
    /\ kernel \in { NewTest(kind) : kind \in AllTestKinds }
    /\ toolOutcome = NoOutcome
    /\ runPc = "parsed"
    /\ CmpIdle
    /\ CanonIdle
    /\ ParseIdle
    /\ MainIdle

NextRun == RunOnce

SpecRun == InitRun /\ [][NextRun]_vars

\* The two callers of doComparison.
CompareModes == { "compare-pickles", "compare-run" }

\* doComparison on two recorded runs: both read by openPickle (-c), or the
\* old one read by openPickle and the new one the tests main just ran (-r),
\* of which there is at least one, main having returned otherwise.
InitCmp ==
    /\ PoolIdle
    /\ SummaryIdle
    /\ ApiIdle
    /\ RunIdle
    /\ oldTestList \in RunRecords
    /\ newTestList \in RunRecords
    /\ cmpPc = "idle"
    /\ cmpResult = NoResult
    /\ cmpMode \in CompareModes
    /\ cmpMode = "compare-run" => newTestList # << >>
    /\ exitStatus = << >>
    /\ CanonIdle
    /\ ParseIdle
    /\ MainIdle

NextCmp ==
    \/ ComparePickleFiles
    \/ CompareRun

SpecCmp == InitCmp /\ [][NextCmp]_vars

\* The characters paths are made of.
PathChars == { "/", "\\", "t", "s", "x" }

\* Every path of at most MaxPathLen characters.
BoundedPaths == UNION { [ 1 .. n -> PathChars ] : n \in 0 .. MaxPathLen }

testsuite == << "t", "e", "s", "t", "s", "u", "i", "t", "e" >>

\* /a/b/testsuite/x/y.cl
ExamplePath ==
    << "/", "a", "/", "b", "/" >> \o testsuite
        \o << "/", "x", "/", "y", ".", "c", "l" >>

\* C:\a\testsuite\x\y.cl
ExampleWindowsPath ==
    << "C", ":", "\\", "a", "\\" >> \o testsuite
        \o << "\\", "x", "\\", "y", ".", "c", "l" >>

\* /ts/ts/x: a test kept below a directory that is named like the prefix.
NestedPrefixPath == << "/", "t", "s", "/", "t", "s", "/", "x" >>

\* getCanonicalTestName on one path.
InitCanon ==
    /\ PoolIdle
    /\ SummaryIdle
    /\ ApiIdle
    /\ RunIdle
    /\ CmpIdle
    /\ canonIn \in
         { [ path |-> p, prefix |-> canonicalPathPrefix ] : p \in BoundedPaths }
           \cup { [ path |-> p, prefix |-> testsuite ] :
                    p \in { ExamplePath, ExampleWindowsPath } }
           \cup { [ path |-> NestedPrefixPath, prefix |-> canonicalPathPrefix ] }
    /\ canonOut = NoCanonOut
    /\ canonPc = "idle"
    /\ ParseIdle
    /\ MainIdle

NextCanon == Canonicalise

SpecCanon == InitCanon /\ [][NextCanon]_vars

\* The action options of the command line.
ActionOptions == { "none", "list-xfail-codes", "read-pickle", "compare-pickles" }

\* What a command line can leave in args.
ArgsOfModel ==
    [ action : ActionOptions,
      write_pickle : { "", "a", "b" },
      compare_run : { "", "a", "b" },
      threads : { 1, MaxThreadsAllowed, MaxThreadsAllowed + 1 } ]

\* The kernel files of main's model: two that parse, one that raises
\* KernelParseError, one that raises KeyError.
MainKernelFiles ==
    { << << "/", "/", "p", "a", "s", "s", "\n" >>, << "/", "/", "\n" >> >>,
      << << "/", "/", "x", "f", "a", "i", "l", ":",
            "T", "I", "M", "E", "O", "U", "T", "\n" >>,
         << "/", "/", " ", "-", "-", "a", "\n" >>,
         << "/", "/", "a", "b", "\n" >> >>,
      << << "p", "a", "s", "s", "\n" >> >>,
      << << "/", "/", "p", "a", "s", "s", "\n" >>,
         << "/", "/", " ", "$", "x", "\n" >> >> }

\* main from its first line on.
InitMain ==
    /\ PoolIdle
    /\ SummaryIdle
    /\ ApiIdle
    /\ RunIdle
    /\ CmpIdle
    /\ CanonIdle
    /\ args \in ArgsOfModel
    /\ isdir \in BOOLEAN
    /\ kernelFiles \in UNION { [ 1 .. n -> MainKernelFiles ] :
                                 n \in 0 .. MaxKernelFiles }
    /\ ~isdir => kernelFiles = << >>
    /\ parseIndex = 0
    /\ parseOut = NoParseOut
    /\ parsed = << >>
    /\ parsePc = "off"
    /\ mainStage = "parse_args"
    /\ exitCause = "none"
    /\ comparedAs = << >>
    /\ did = {}

NextMain ==
    \/ ParseArgs
    \/ CheckArguments
    \/ LoadOldTests
    \/ Discover
    \/ ParseKernel
    \/ RunTests
    \/ Finish

SpecMain == InitMain /\ [][NextMain]_vars

\* The codes written after "//xfail:" in the files of the model: every
\* attribute name of GPUVerifyErrorCodes, a name that is none, and nothing;
\* each in upper and in lower case.
XfailCodes ==
    LET names == { NameChars[n] : n \in DOMAIN NameChars }
                   \cup { << "N", "O", "T", "_", "A", "_", "C", "O", "D", "E" >>,
                          << >> }
    IN  names \cup { lower(c) : c \in names }

\* What follows the code on the first line.
FirstLineTails ==
    { << "\n" >>,
      << >>,
      << " ", "x", "\n" >>,
      << "2", "\n" >> }

\* The first lines that say xfail.
XfailLines ==
    { << "/", "/", "x", "f", "a", "i", "l", ":" >> \o c \o t :
        c \in XfailCodes, t \in FirstLineTails }

\* The other first lines.
OtherFirstLines ==
    { << "/", "/", "p", "a", "s", "s", "\n" >>,
      << "/", "/", "P", "A", "S", "S", "\n" >>,
      << "/", "/", "p", "a", "s", "s", "e", "d", "\n" >>,
      << "/", "/", "p", "a", "s", "s" >>,
      << "p", "a", "s", "s", "\n" >>,
      << "/", "/", " ", "p", "a", "s", "s", "\n" >>,
      << "/", "/", "X", "F", "A", "I", "L", ":", "T", "I", "M", "E", "O", "U", "T", "\n" >>,
      << "/", "/", "x", "f", "a", "i", "l", ":", " ", "T", "I", "M", "E", "O", "U", "T", "\n" >>,
      << "/", "x", "f", "a", "i", "l", ":", "T", "I", "M", "E", "O", "U", "T", "\n" >>,
      << "\n" >> }

\* The second lines.
SecondLines ==
    { << "/", "/", "\n" >>,
      << "/", "/", " ", "-", "-", "a", " ", "-", "b", "\n" >>,
      << "/", "/", "-", "-", "k", "=", "$", "{", "K", "E", "R", "N", "E", "L", "_", "D", "I", "R", "}", "\n" >>,
      << "/", "/", " ", "$", "K", "E", "R", "N", "E", "L", "_", "D", "I", "R", "/", "x", " ", "-", "-", "b", "\n" >>,
      << "/", "/", " ", "-", "-", "a", "=", "$", "{", "O", "T", "H", "E", "R", "}", "\n" >>,
      << "/", "/", " ", "-", "-", "a", " ", "$", "x", "\n" >>,
      << "/", "/", " ", "a", "$", "\n" >>,
      << "/", "/", " ", "$", "$", "\n" >>,
      << "/", "/", " ", "$", "{", "K", "E", "R", "N", "E", "L", "_", "D", "I", "R", "\n" >>,
      << "-", "-", "a", "\n" >>,
      << "/", "/" >> }

\* The lines after the second.
RuleLines ==
    { <<  >>,
      << << "/", "/", "a", "b", "\n" >> >>,
      << << "/", "/", "a", "*", "\n" >>, << "/", "/", "(", "a", ")", "\n" >>, << "x", "\n" >> >>,
      << << "/", "/", "*", "a", "\n" >> >>,
      << << "/", "/", "a", "b", "\n" >>, << "/", "/", "(", "a", "\n" >>, << "/", "/", "a", "b", "\n" >> >>,
      << << "/", "/", "\n" >>, << "/", "/", "a", "b", "\n" >> >>,
      << << "/", "/", "a", "b" >> >>,
      << << "x", "\n" >> >> }

\* Whether every line of a file but the last ends with its only "\n".
IsFile(f) ==
    \A i \in 1 .. Len(f) :
        /\ f[i] # << >>
        /\ \A j \in 1 .. Len(f[i]) - 1 : f[i][j] # "\n"
        /\ i < Len(f) => f[i][Len(f[i])] = "\n"

\* The file contents of the model.
KernelFileContents ==
    { f \in { << >> }
              \cup { << a >> : a \in XfailLines \cup OtherFirstLines }
              \cup { << a, b >> \o c : a \in XfailLines \cup OtherFirstLines,
                                       b \in SecondLines, c \in RuleLines } :
        IsFile(f) }

\* GPUVerifyTestKernel(path) on one file.
InitParse ==
    /\ PoolIdle
    /\ SummaryIdle
    /\ ApiIdle
    /\ RunIdle
    /\ CmpIdle
    /\ CanonIdle
    /\ kernelFiles \in { << f >> : f \in KernelFileContents }
    /\ parseIndex = 0
    /\ parseOut = NoParseOut
    /\ parsed = << >>
    /\ parsePc = "parsing"
    /\ args = DefaultArgs
    /\ isdir = TRUE
    /\ mainStage = "parse"
    /\ exitCause = "none"
    /\ comparedAs = << >>
    /\ did = { "discover" }

NextParse == ParseKernel

SpecParse == InitParse /\ [][NextParse]_vars

-----------------------------------------------------------------------------
(* Properties of the thread pool (Spec, FairSpec).                         *)

Submitted == 1 .. Len(tests)

AllWorkers == DOMAIN wpc

\* The tests whose tool returned the operator-interrupt code.
ReturnedCtrlC == { t \in Submitted : tests[t].gpuverifyReturnCode = << CTRL_C >> }

\* How many run() calls on test t have begun: those over, and those a worker
\* is in.
Invocations(t) ==
    runCount[t] + Cardinality({ w \in AllWorkers : wpc[w] = "run" /\ wtest[w] = t })

\* C1: with 1 <= N < K, no test returning CTRL_C and no run() ended by an
\* exception, every one of the K tests has been executed once
\* waitForCompletion() has returned.
C1_AllExecutedAfterWait ==
    ( /\ mainPc = "done"
      /\ 1 <= numberOfThreads
      /\ numberOfThreads < Len(tests)
      /\ ReturnedCtrlC = {}
      /\ \A w \in AllWorkers : wpc[w] # "dead" )
    => \A t \in Submitted : hasBeenExecuted(tests[t])

\* C1: three tests, two workers, no interrupt, waitForCompletion() returned.
C1_Witness ==
    /\ mainPc = "done"
    /\ numberOfThreads = 2
    /\ Len(tests) = 3
    /\ ReturnedCtrlC = {}
    /\ \A t \in Submitted : hasBeenExecuted(tests[t])

\* C2: run() is invoked at most once on each test, in every interleaving, so
\* never by two workers, also while a worker drains the queue.
C2_RunAtMostOnce == \A t \in Submitted : Invocations(t) <= 1

\* C2: one worker drains the queue while another is in run() on a test.
C2_Witness ==
    \E w1, w2 \in AllWorkers :
        /\ wpc[w1] \in { "drain", "drained" }
        /\ wpc[w2] = "run"
        /\ Invocations(wtest[w2]) = 1

\* C3: once a worker has seen CTRL_C, no test that was in the queue at that
\* moment is executed: each is unexecuted when waitForCompletion() returns.
C3_QueuedStayUnexecuted ==
    mainPc = "done" =>
        \A t \in queuedAtInterrupt : ~hasBeenExecuted(tests[t]) /\ runCount[t] = 0

\* C4: waitForCompletion() returns only with the queue empty and every worker
\* outside run() and outside a drain round: each test was dequeued and its
\* handling is over.
C4_WaitReturnsWhenAllHandled ==
    mainPc = "done" =>
        /\ theQueue = << >>
        /\ \A w \in AllWorkers : wpc[w] \in { "get", "drain" }
        /\ \A t \in Submitted : Invocations(t) = runCount[t]

\* C4: waitForCompletion() returned after tests were executed and drained.
C4_Witness ==
    /\ mainPc = "done"
    /\ Len(tests) = 3
    /\ \E t \in Submitted : runCount[t] = 1
    /\ \E t \in Submitted : runCount[t] = 0
    /\ \E w \in AllWorkers : wpc[w] = "drain"

\* C5: once a worker drains the queue, waitForCompletion() eventually returns.
C5_DrainLeadsToReturn ==
    (\E w \in AllWorkers : wpc[w] \in { "drain", "drained" }) ~> (mainPc = "done")

\* What does hold of the drain: waitForCompletion() returns unless a run()
\* of another worker ended that worker's thread.
DrainLeadsToReturnOrDeadWorker ==
    (\E w \in AllWorkers : wpc[w] \in { "drain", "drained" })
        ~> (mainPc = "done" \/ \E w \in AllWorkers : wpc[w] = "dead")

\* C6: a test whose tool could not be launched is recorded as executed, with
\* testPassed = False.
C6_LaunchErrorRecordedAsFailure ==
    \A w \in AllWorkers :
        (wpc[w] = "dead" /\ tests[wtest[w]].gpuverifyReturnCode = << >>)
            => tests[wtest[w]].testPassed = False

-----------------------------------------------------------------------------
(* Properties of run() (SpecRun).                                          *)

\* The tool ran and exited with the code the test expects.
ExpectedCodeReturned ==
    /\ runPc # "parsed"
    /\ toolOutcome.launched
    /\ toolOutcome.code = kernel.expectedReturnCode

\* Every match rule of the test is found in the output.
AllRulesMatch == DOMAIN kernel.regex \subseteq toolOutcome.matched

\* C7: after run(), a test whose tool exit code is its expected code and
\* whose match rules all match has testPassed = True and returnedCode equal
\* to the expected code.
C7_ExpectedCodeAndRulesPass ==
    (ExpectedCodeReturned /\ AllRulesMatch) =>
        /\ runPc = "returned"
        /\ kernel.testPassed = True
        /\ kernel.returnedCode = << kernel.expectedReturnCode >>

\* C7: an expected failure with two rules, both matched.
C7_Witness ==
    /\ ExpectedCodeReturned
    /\ AllRulesMatch
    /\ kernel.expectedReturnCode = TIMEOUT
    /\ DOMAIN kernel.regex = RegexKeys

\* C8: after run(), a test whose tool exit code is its expected code and one
\* of whose match rules does not match has returnedCode =
\* REGEX_MISMATCH_ERROR and testPassed = False, and gpuverifyReturnCode is
\* the tool's code.
C8_RuleMismatchFails ==
    (ExpectedCodeReturned /\ ~AllRulesMatch) =>
        /\ runPc = "returned"
        /\ kernel.returnedCode = << REGEX_MISMATCH_ERROR >>
        /\ kernel.testPassed = False
        /\ kernel.gpuverifyReturnCode = << toolOutcome.code >>

\* C8: the tool returned SUCCESS as expected, one rule of two did not match.
C8_Witness ==
    /\ ExpectedCodeReturned
    /\ kernel.expectedReturnCode = SUCCESS
    /\ DOMAIN kernel.regex = RegexKeys
    /\ Cardinality(toolOutcome.matched) = 1

-----------------------------------------------------------------------------
(* Properties of doComparison (SpecCmp).                                   *)

\* The identity a test is joined on.
Identity(test) == DicKey(test, canonicalPathPrefix)

\* The identities present in a run.
Identities(run) == { Identity(run[i]) : i \in 1 .. Len(run) }

\* The testPassed a run holds for an identity: that of its last such test.
PassedIn(run, id) ==
    LET last == CHOOSE i \in 1 .. Len(run) :
                    /\ Identity(run[i]) = id
                    /\ \A j \in 1 .. Len(run) : Identity(run[j]) = id => j <= i
    IN  run[last].testPassed

InBoth == Identities(oldTestList) \cap Identities(newTestList)

\* Some identity of both runs went from passed to not passed.
SomePassedNoLonger ==
    \E id \in InBoth :
        /\ PassedIn(oldTestList, id) = True
        /\ PassedIn(newTestList, id) # True

\* new holds every identity of old with the same result, and more.
NewIsStrictSuperset ==
    /\ Identities(oldTestList) \subseteq Identities(newTestList)
    /\ Identities(oldTestList) # Identities(newTestList)
    /\ \A id \in Identities(oldTestList) :
           PassedIn(oldTestList, id) = PassedIn(newTestList, id)

\* C9: the verdict is 1 exactly when an identity of both runs went from
\* passed to not passed or a test is counted missing; else 0 exactly when
\* the three counts are zero; else -1.  When new is a strict superset of old
\* with the old entries unchanged, the verdict is -1 and the new count > 0.
C9_Verdict ==
    cmpPc = "done" =>
        LET regression == SomePassedNoLonger \/ cmpResult.missing > 0
            allZero == /\ cmpResult.changed = 0
                       /\ cmpResult.missing = 0
                       /\ cmpResult.new = 0
        IN  /\ (cmpResult.verdict = 1) <=> regression
            /\ ~regression => ((cmpResult.verdict = 0) <=> allZero)
            /\ (~regression /\ ~allZero) => cmpResult.verdict = 0 - 1
            /\ NewIsStrictSuperset =>
                   (cmpResult.verdict = 0 - 1 /\ cmpResult.new > 0)

\* C9: a strict superset with a failed test in the old run, compared.
C9_Witness ==
    /\ cmpPc = "done"
    /\ NewIsStrictSuperset
    /\ \E id \in Identities(oldTestList) : PassedIn(oldTestList, id) = False
    /\ cmpResult.verdict = 0 - 1

\* old = {A: pass, B: pass}
ExampleOld ==
    << [ path |-> PathList[1], testPassed |-> True ],
       [ path |-> PathList[2], testPassed |-> True ] >>

\* new = {A: fail, C: pass}
ExampleNew ==
    << [ path |-> PathList[1], testPassed |-> False ],
       [ path |-> PathList[3], testPassed |-> True ] >>

\* C10: the changed count is the number of identities of both runs whose
\* testPassed differ, the new count the number of identities of new that
\* old lacks; the example gives one changed, one missing and one new test.
C10_ChangedAndNewCounts ==
    cmpPc = "done" =>
        /\ cmpResult.changed =
             Cardinality({ id \in InBoth :
                             PassedIn(oldTestList, id) # PassedIn(newTestList, id) })
        /\ cmpResult.new =
             Cardinality(Identities(newTestList) \ Identities(oldTestList))
        /\ (oldTestList = ExampleOld /\ newTestList = ExampleNew) =>
               /\ cmpResult.changed = 1
               /\ cmpResult.missing = 1
               /\ cmpResult.new = 1
               /\ { id \in InBoth : PassedIn(oldTestList, id) # PassedIn(newTestList, id) }
                      = { Identity(ExampleOld[1]) }
               /\ Identities(newTestList) \ Identities(oldTestList)
                      = { Identity(ExampleNew[2]) }

\* C10: the example of the claim, compared.
C10_Witness ==
    /\ cmpPc = "done"
    /\ oldTestList = ExampleOld
    /\ newTestList = ExampleNew

\* The identities of old that new lacks.
AbsentFromNew == Identities(oldTestList) \ Identities(newTestList)

\* C11 as stated: the missing count is the number of identities of old that
\* new lacks and whose old test passed; an old test that did not pass and is
\* absent from new is not counted.
C11_MissingCountsPassedOnly ==
    cmpPc = "done" =>
        cmpResult.missing =
            Cardinality({ id \in AbsentFromNew : PassedIn(oldTestList, id) = True })

\* C11 amended: the missing count is the number of identities of old that new
\* lacks, whether or not the old test passed, and any such identity makes the
\* verdict 1.
C11_MissingCountsEveryAbsent ==
    cmpPc = "done" =>
        /\ cmpResult.missing = Cardinality(AbsentFromNew)
        /\ AbsentFromNew # {} => cmpResult.verdict = 1

\* C11: an old test that failed and one that never ran, both absent from new.
C11_Witness ==
    /\ cmpPc = "done"
    /\ \E id \in AbsentFromNew : PassedIn(oldTestList, id) = False
    /\ \E id \in AbsentFromNew : PassedIn(oldTestList, id) = None
    /\ \A id \in AbsentFromNew : PassedIn(oldTestList, id) # True
    /\ cmpResult.missing = 2

\* C12: a recorded run compared with itself gives the verdict 0 (equal) and
\* the counts changed = missing = new = 0, also when two of its tests share an
\* identity or a path lacks the prefix.
C12_SelfComparisonIsEqual ==
    (cmpPc = "done" /\ oldTestList = newTestList) =>
        /\ cmpResult.verdict = 0
        /\ cmpResult.changed = 0
        /\ cmpResult.missing = 0
        /\ cmpResult.new = 0

\* C12: a run of two tests with one identity and different results, compared
\* with itself.
C12_Witness ==
    /\ cmpPc = "done"
    /\ oldTestList = newTestList
    /\ Len(oldTestList) = 2
    /\ Identity(oldTestList[1]) = Identity(oldTestList[2])
    /\ oldTestList[1].testPassed = True
    /\ oldTestList[2].testPassed = False
    /\ cmpResult.verdict = 0

-----------------------------------------------------------------------------
(* The exit status after a comparison (SpecCmp).                           *)

\* C13: after a comparison the process exits with status 0 if doComparison
\* returned 0 or -1 and with a nonzero status if it returned 1, whether the
\* comparison was asked for with -c or with -r.
C13_ExitStatusFollowsVerdict ==
    cmpPc = "done" =>
        /\ exitStatus # << >>
        /\ cmpResult.verdict \in { 0, 0 - 1 } =>
               exitStatus = << GPUVerifyTesterErrorCodes.SUCCESS >>
        /\ cmpResult.verdict = 1 =>
               exitStatus # << GPUVerifyTesterErrorCodes.SUCCESS >>

\* What holds of the code: the status follows the verdict under -c; under -r
\* it is 0 whatever the verdict.
ExitStatusFollowsVerdictOnlyForPickles ==
    cmpPc = "done" =>
        /\ cmpMode = "compare-pickles" =>
               exitStatus = << IF cmpResult.verdict = 1 THEN 1 ELSE 0 >>
        /\ cmpMode = "compare-run" => exitStatus = << 0 >>

-----------------------------------------------------------------------------
(* Properties of getCanonicalTestName (SpecCanon).                         *)

\* The positions of path the prefix occurs at.
Occurrences(path, prefix) ==
    { i \in 1 .. Len(path) :
        /\ i + Len(prefix) - 1 <= Len(path)
        /\ \A j \in 1 .. Len(prefix) : path[i + j - 1] = prefix[j] }

\* c is path from position i on, each backslash turned into a slash.
IsSuffixWithSlashes(c, path, i) ==
    /\ Len(c) = Len(path) - i + 1
    /\ \A j \in 1 .. Len(c) :
           c[j] = IF path[i + j - 1] = "\\" THEN "/" ELSE path[i + j - 1]

\* Two runs of one test with this path and different results.
OneTestRun(path, passed) == << [ path |-> path, testPassed |-> passed ] >>

\* C15: getCanonicalTestName(path, prefix) is the path from the first place
\* the prefix occurs at onward, backslashes replaced by slashes
\* (/a/b/testsuite/x/y.cl gives testsuite/x/y.cl); when the prefix does not
\* occur it raises, doComparison files the test under its raw path, and two
\* runs holding that path are joined on it.
C15_CanonicalNameFromPrefixOn ==
    canonPc = "done" =>
        LET path == canonIn.path
            prefix == canonIn.prefix
            occ == Occurrences(path, prefix)
        IN  /\ occ # {} =>
                /\ ~canonOut.raised
                /\ \E i \in occ :
                       /\ \A j \in occ : i <= j
                       /\ IsSuffixWithSlashes(canonOut.cPath, path, i)
                /\ canonOut.key = canonOut.cPath
            /\ occ = {} =>
                /\ canonOut.raised
                /\ canonOut.key = path
                /\ LET r == doComparison(OneTestRun(path, True),
                                         OneTestRun(path, False), prefix)
                   IN  r.changed = 1 /\ r.missing = 0 /\ r.new = 0
            /\ path = ExamplePath =>
                canonOut.cPath = testsuite \o << "/", "x", "/", "y", ".", "c", "l" >>

\* C15: a path with backslashes around the prefix, canonicalised.
C15_Witness ==
    /\ canonPc = "done"
    /\ canonIn.path = << "\\", "t", "s", "\\" >>
    /\ canonOut.cPath = << "t", "s", "/" >>

\* C15: the example of the claim, canonicalised.
C15_ExampleReached ==
    /\ canonPc = "done"
    /\ canonIn.path = ExamplePath
    /\ ~canonOut.raised

\* C15: a path without the prefix, filed under itself.
C15_NoPrefixReached ==
    /\ canonPc = "done"
    /\ canonIn.path = << "/", "x", "/", "s" >>
    /\ canonOut.raised
    /\ canonOut.key = canonIn.path

-----------------------------------------------------------------------------
(* Properties of the parser (SpecParse).                                   *)

\* The file the constructor was called on.
ParsedFile == kernelFiles[1]

\* The file has a first line that says //xfail:
SaysXfail ==
    /\ ParsedFile # << >>
    /\ startswith(ParsedFile[1], << "/", "/", "x", "f", "a", "i", "l", ":" >>)

\* <CODE>: the letters and underscores that follow "//xfail:", read without
\* regard to case.
WrittenCode ==
    LET text == From(ParsedFile[1], 8)
        runs == { n \in 0 .. Len(text) :
                    \A i \in 1 .. n : text[i] \in Letters \/ text[i] = "_" }
    IN  upper(SubSeq(text, 1, CHOOSE n \in runs : \A m \in runs : m <= n))

\* The names of the registry, REGEX_MISMATCH_ERROR among them.
RegistryNames == DOMAIN NameChars

\* The numeric value of a name of the registry.
ValueOf(name) ==
    IF name = "REGEX_MISMATCH_ERROR" THEN REGEX_MISMATCH_ERROR
    ELSE ErrorCodes[name]

\* C16: on a first line //xfail:<CODE> the first line is accepted, with
\* expectedReturnCode the numeric value of <CODE>, exactly when <CODE> is a
\* name of the registry other than SUCCESS and REGEX_MISMATCH_ERROR; for any
\* other <CODE> a KernelParseError for line 1 is raised.
C16_XfailCodeMustBeRegistered ==
    (parseIndex = 1 /\ SaysXfail) =>
        LET valid == { n \in RegistryNames :
                         /\ NameChars[n] = WrittenCode
                         /\ n \notin { "SUCCESS", "REGEX_MISMATCH_ERROR" } }
            rejected == /\ parseOut.raised = "KernelParseError"
                        /\ parseOut.lineNumber = 1
        IN  /\ valid # {} =>
                /\ ~rejected
                /\ \A n \in valid :
                       parseOut.self.expectedReturnCode = ValueOf(n)
            /\ valid = {} => rejected
            /\ (parseOut.raised = "none") =>
                   \E n \in valid : parseOut.self.expectedReturnCode = ValueOf(n)

\* C16: //xfail:timeout, in lower case, parsed with TIMEOUT expected.
C16_Witness ==
    /\ parseIndex = 1
    /\ SaysXfail
    /\ ParsedFile[1] = << "/", "/", "x", "f", "a", "i", "l", ":",
                          "t", "i", "m", "e", "o", "u", "t", "\n" >>
    /\ parseOut.raised = "none"
    /\ parseOut.self.expectedReturnCode = TIMEOUT

\* C16: //xfail:SUCCESS rejected.
C16_SuccessRejected ==
    /\ parseIndex = 1
    /\ SaysXfail
    /\ WrittenCode = NameChars.SUCCESS
    /\ parseOut.raised = "KernelParseError"
    /\ parseOut.lineNumber = 1

\* The attributes of a fully populated test.
TestAttributes ==
    { "path", "expectedReturnCode", "gpuverifyCmdArgs", "regex",
      "testPassed", "returnedCode", "gpuverifyReturnCode" }

\* The constructor returned a test with every attribute set, the result
\* fields as before any execution.
FullyPopulated ==
    /\ parseOut.raised = "none"
    /\ DOMAIN parseOut.self = TestAttributes
    /\ parseOut.self.testPassed = None
    /\ parseOut.self.returnedCode = << >>
    /\ parseOut.self.gpuverifyReturnCode = << >>
    /\ \A key \in DOMAIN parseOut.self.regex : parseOut.self.regex[key] = None

\* C17: whatever the file holds, the constructor either returns a fully
\* populated test or raises KernelParseError.
C17_ParsedOrKernelParseError ==
    parseIndex = 1 =>
        \/ FullyPopulated
        \/ parseOut.raised = "KernelParseError"

\* What holds of the code: besides the two, a "$" on the second line can
\* make the constructor raise KeyError or ValueError.
ParsedOrOneOfThreeErrors ==
    parseIndex = 1 =>
        \/ FullyPopulated
        \/ parseOut.raised = "KernelParseError"
        \/ /\ parseOut.raised \in { "KeyError", "ValueError" }
           /\ Len(ParsedFile) >= 2
           /\ \E i \in 1 .. Len(ParsedFile[2]) : ParsedFile[2][i] = "$"

-----------------------------------------------------------------------------
(* Properties of main (SpecMain).                                          *)

\* The status the code gives each category of failure: the returns of main
\* for an unusable directory, a KernelParseError and a rejected argument, and
\* the sys.exit of -c for the verdict 1.
StatusForFailure ==
    [ discovery     |-> GPUVerifyTesterErrorCodes.FILE_SEARCH_ERROR,
      parse         |-> GPUVerifyTesterErrorCodes.KERNEL_PARSE_ERROR,
      regression    |-> ExitOfComparePickles(1),
      configuration |-> GPUVerifyTesterErrorCodes.GENERAL_ERROR ]

\* The category the process ended in: one of the four failures, or "other".
Category ==
    IF exitCause \in { "discovery", "configuration" } THEN exitCause
    ELSE IF exitCause = "exception" /\ parseOut.raised = "KernelParseError"
    THEN "parse"
    ELSE IF comparedAs = << 1 >> THEN "regression"
    ELSE "other"

\* C14: the process ends with a nonzero status in each of the four failure
\* categories, a status no other of the four categories is given, and with
\* status 0 only when it ends in none of them.
C14_DistinctNonzeroStatuses ==
    mainStage = "exited" =>
        /\ Category \in DOMAIN StatusForFailure =>
               /\ exitStatus # << 0 >>
               /\ \A other \in DOMAIN StatusForFailure \ { Category } :
                      exitStatus # << StatusForFailure[other] >>
        /\ exitStatus = << 0 >> => Category = "other"

\* What holds of the code: a rejected argument ends with 5, an unusable
\* directory with 1, a KernelParseError with 1 (by way of AttributeError),
\* a regression with 1 under -c and with 0 under -r.
StatusesOfTheCode ==
    mainStage = "exited" =>
        /\ Category = "configuration" => exitStatus = << 5 >>
        /\ Category = "discovery" => exitStatus = << 1 >>
        /\ Category = "parse" => exitStatus = << 1 >>
        /\ Category = "regression" =>
               exitStatus = << IF args.action = "compare-pickles" THEN 1 ELSE 0 >>

\* C18: after a KernelParseError main either goes on with its loop over the
\* kernel files (the file skipped) or ends with the status KERNEL_PARSE_ERROR.
C18_ParseErrorStopsOrSkips ==
    (parseIndex > 0 /\ parseOut.raised = "KernelParseError") =>
        \/ mainStage = "parse" /\ parsePc = "parsing"
        \/ /\ mainStage = "exited"
           /\ exitStatus = << GPUVerifyTesterErrorCodes.KERNEL_PARSE_ERROR >>

\* What holds of the code: a KernelParseError always ends the process, with
\* AttributeError and the status 1, whatever files are still to be parsed.
ParseErrorEndsInAttributeError ==
    (parseIndex > 0 /\ parseOut.raised = "KernelParseError") =>
        /\ mainStage = "exited"
        /\ parsePc = "AttributeError"
        /\ exitStatus = << 1 >>
        /\ "execute" \notin did

\* The arguments main rejects.
ArgumentsAreRejected ==
    \/ args.write_pickle = args.compare_run /\ args.write_pickle # ""
    \/ args.threads > 50

\* C19: when parse_args has returned arguments whose write target is the
\* non-empty compare target, or whose thread count is over 50, main loads no
\* saved run, discovers and parses no file and runs no test, and it returns
\* the nonzero status GENERAL_ERROR from its checks.
C19_RejectedBeforeAnyWork ==
    (args.action = "none" /\ ArgumentsAreRejected) =>
        /\ did = {}
        /\ parseIndex = 0
        /\ parsed = << >>
        /\ mainStage \in { "parse_args", "check", "exited" }
        /\ mainStage = "exited" =>
               /\ exitCause = "configuration"
               /\ exitStatus = << GPUVerifyTesterErrorCodes.GENERAL_ERROR >>
               /\ exitStatus # << 0 >>

\* C19: 51 threads asked for, with targets that are fine, and main returned.
C19_Witness ==
    /\ mainStage = "exited"
    /\ args.action = "none"
    /\ args.threads = 51
    /\ args.write_pickle = "a"
    /\ args.compare_run = "b"
    /\ isdir
    /\ Len(kernelFiles) = MaxKernelFiles
    /\ exitStatus = << 5 >>

\* C19: the write target is the compare target, and main returned.
C19_SameTargetReached ==
    /\ mainStage = "exited"
    /\ args.action = "none"
    /\ args.threads = 1
    /\ args.write_pickle = "b"
    /\ args.compare_run = "b"
    /\ exitStatus = << 5 >>

-----------------------------------------------------------------------------
(* run() on a tool exit code that is not the expected one (SpecRun).       *)

\* The tool ran and exited with another code than the test expects.
UnexpectedCodeReturned ==
    /\ runPc # "parsed"
    /\ toolOutcome.launched
    /\ toolOutcome.code # kernel.expectedReturnCode

\* C20: after run() on a test whose tool exit code is not its expected code,
\* every match rule is still None, returnedCode is the tool's exit code and
\* testPassed is False.
C20_UnexpectedCodeFails ==
    UnexpectedCodeReturned =>
        /\ \A key \in DOMAIN kernel.regex : kernel.regex[key] = None
        /\ kernel.returnedCode = << toolOutcome.code >>
        /\ kernel.testPassed = False

\* What holds of the code: the same, for the exit codes the registry knows;
\* on any other exit code run() raises KeyError with the rules None, the
\* result fields unset but for gpuverifyReturnCode, and testPassed None.
UnexpectedCodeFailsIfRegistered ==
    UnexpectedCodeReturned =>
        /\ \A key \in DOMAIN kernel.regex : kernel.regex[key] = None
        /\ kernel.gpuverifyReturnCode = << toolOutcome.code >>
        /\ IF toolOutcome.code \in DOMAIN errorCodeToString
           THEN /\ runPc = "returned"
                /\ kernel.returnedCode = << toolOutcome.code >>
                /\ kernel.testPassed = False
           ELSE /\ runPc = "raised"
                /\ kernel.returnedCode = << >>
                /\ kernel.testPassed = None

-----------------------------------------------------------------------------
(* The pattern-mismatch sentinel (SpecRun).                                *)

\* The expected codes of the first lines of the model that parse.
ParsedExpectedCodes ==
    { ParseOutcomeLine(line).expectedReturnCode :
        line \in { l \in XfailLines \cup OtherFirstLines :
                     ParseOutcomeLine(l).raised = "none" } }

\* C21: REGEX_MISMATCH_ERROR is none of the base registry's codes, no first
\* line that parses and no test has it as the expected code, and a test
\* whose returnedCode is REGEX_MISMATCH_ERROR has testPassed = False.
C21_MismatchSentinelAlwaysFails ==
    /\ REGEX_MISMATCH_ERROR \notin BaseCodes
    /\ REGEX_MISMATCH_ERROR \notin ParsedExpectedCodes
    /\ kernel.expectedReturnCode # REGEX_MISMATCH_ERROR
    /\ kernel.returnedCode = << REGEX_MISMATCH_ERROR >> =>
           kernel.testPassed = False

\* C21: run() returned with the sentinel recorded for a test that expects
\* TIMEOUT, the tool having timed out and a rule not having matched.
C21_Witness ==
    /\ runPc = "returned"
    /\ kernel.expectedReturnCode = TIMEOUT
    /\ toolOutcome.code = TIMEOUT
    /\ kernel.returnedCode = << REGEX_MISMATCH_ERROR >>

\* C21: run() returned with the sentinel's number recorded because the tool
\* itself exited with it.
C21_ToolExitedWithSentinel ==
    /\ runPc = "returned"
    /\ toolOutcome.code = REGEX_MISMATCH_ERROR
    /\ kernel.returnedCode = << REGEX_MISMATCH_ERROR >>

-----------------------------------------------------------------------------
(* Who writes a test's result fields, and when (Spec).                     *)

\* The result fields as __init__ leaves them.
Unwritten(test) ==
    /\ ~hasBeenExecuted(test)
    /\ test.returnedCode = << >>
    /\ test.gpuverifyReturnCode = << >>

\* The workers that hold test t as the item they dequeued.
HoldersOf(t) == { w \in AllWorkers : wtest[w] = t }

\* A step that writes test t is a step of run() of the one worker that
\* dequeued t, it is the first write of t, and waitForCompletion() has not
\* returned.
WrittenByItsWorkerOnly ==
    /\ Len(tests') = Len(tests)
    /\ \A t \in Submitted :
         tests'[t] # tests[t] =>
            /\ mainPc = "wait"
            /\ Unwritten(tests[t])
            /\ runCount[t] = 0
            /\ runCount'[t] = 1
            /\ \E w \in AllWorkers :
                 /\ HoldersOf(t) = { w }
                 /\ wpc[w] = "run"
                 /\ wpc'[w] # "run"

\* C22: a test's result fields (gpuverifyReturnCode, returnedCode,
\* testPassed) are as the parser left them, with hasBeenExecuted() false,
\* until a run() on it is over; they are written only by the run() of the
\* single worker that dequeued the test, once; and no test is written after
\* waitForCompletion() has returned.
C22_ResultFieldsWrittenOnceByOwner ==
    /\ [](\A t \in 1 .. Len(tests) : runCount[t] = 0 => Unwritten(tests[t]))
    /\ [][WrittenByItsWorkerOnly]_vars
    /\ [][mainPc = "done" => tests' = tests]_vars

\* C22: waitForCompletion() has returned with two workers having executed
\* one test each.
C22_Witness ==
    /\ mainPc = "done"
    /\ numberOfThreads = 2
    /\ Len(tests) = 2
    /\ \A t \in Submitted : hasBeenExecuted(tests[t]) /\ runCount[t] = 1

\* C22: a worker is in run() on a test it dequeued and has not written yet,
\* while another test has its results.
C22_DequeuedNotYetWritten ==
    \E w \in AllWorkers :
        /\ wpc[w] = "run"
        /\ Unwritten(tests[wtest[w]])
        /\ \E t \in Submitted : hasBeenExecuted(tests[t])

-----------------------------------------------------------------------------
(* The order in which tests leave the queue (Spec).                        *)

\* The tests in the queue.
Queued == { theQueue[i] : i \in 1 .. Len(theQueue) }

\* The tests addTest was called on so far; main submits tests[1], tests[2],
\* ... in this order, and no worker runs before the last addTest.
AddedSoFar == IF mainPc = "add" THEN 1 .. Len(theQueue) ELSE Submitted

\* The tests that have left the queue.
Dequeued == AddedSoFar \ Queued

\* A step takes at most one test out of the queue; every test submitted
\* before that test left the queue in an earlier step; and a worker that
\* dequeues for execution is handed that test.
DequeuesOldestFirst ==
    /\ Cardinality(Queued \ Queued') <= 1
    /\ \A B \in Queued \ Queued' :
         /\ \A A \in AddedSoFar : A < B => A \in Dequeued
         /\ \A w \in AllWorkers :
              (wpc[w] = "get" /\ wpc'[w] = "run") => wtest'[w] = B

\* C23: tests leave the queue in submission order, for any number of
\* workers and whether a worker dequeues to execute or to drain: if A was
\* submitted before B and B has been dequeued, A was dequeued before it.
C23_DequeuedInSubmissionOrder ==
    /\ [](\A A, B \in AddedSoFar : (A < B /\ B \in Dequeued) => A \in Dequeued)
    /\ [][DequeuesOldestFirst]_vars

\* C23: of three tests and two workers, the second test is over while the
\* first, dequeued before it, is still being executed and the third waits.
C23_Witness ==
    /\ numberOfThreads = 2
    /\ theQueue = << 3 >>
    /\ runCount[2] = 1
    /\ runCount[1] = 0
    /\ \E w \in AllWorkers : wpc[w] = "run" /\ wtest[w] = 1

\* C23: a worker has dequeued the third test to drain it while the first,
\* dequeued before the other two, is still being executed by the other worker.
C23_DrainedInOrder ==
    /\ Len(tests) = 3
    /\ theQueue = << >>
    /\ runCount[3] = 0
    /\ \E w \in AllWorkers : wpc[w] = "drained"
    /\ \E w \in AllWorkers : wpc[w] = "run" /\ wtest[w] = 1

-----------------------------------------------------------------------------
(* Properties of summariseTests (SpecSummary).                             *)

\* The tests given to summariseTests.
Summarised == 1 .. Len(summaryTests)

\* How many of them satisfy P.
CountOf(P(_)) == Cardinality({ i \in Summarised : P(summaryTests[i]) })

IsUnexecuted(test) == ~hasBeenExecuted(test)

IsExecutedAndPassed(test) == hasBeenExecuted(test) /\ test.testPassed = True

IsExecutedAndFailed(test) == hasBeenExecuted(test) /\ test.testPassed = False

\* C24: the four outcome counts of summariseTests sum to the number of
\* tests, and so do the two kernel-type counts; the skipped count is the
\* number of unexecuted tests, the unexpected-failure count the number of
\* executed tests that did not pass, and passes and expected failures
\* together are the executed tests that passed.
C24_EveryTestInOneBucket ==
    summaryPc = "printed" =>
        /\ summary.passCounter + summary.xfailCounter + summary.failCounter
             + summary.skipCounter = Len(summaryTests)
        /\ summary.OpenCLCounter + summary.CUDACounter = Len(summaryTests)
        /\ summary.skipCounter = CountOf(IsUnexecuted)
        /\ summary.failCounter = CountOf(IsExecutedAndFailed)
        /\ summary.passCounter + summary.xfailCounter
             = CountOf(IsExecutedAndPassed)

\* C24: the summary of a run of two tests, one executed and failed, the
\* other left unexecuted.
C24_Witness ==
    /\ summaryPc = "printed"
    /\ Len(summaryTests) = 2
    /\ summary.skipCounter = 1
    /\ summary.failCounter = 1

\* C24: the summary of a run with a pass and an expected failure.
C24_PassAndXfailReached ==
    /\ summaryPc = "printed"
    /\ summary.passCounter = 1
    /\ summary.xfailCounter = 1

-----------------------------------------------------------------------------
(* The identity of one test on two machines (SpecCanon).                   *)

PathSeparators == { "/", "\\" }

\* The directories the other machine keeps its tests in.
LeadingDirs ==
    { << >>,
      << "/" >>,
      << "/", "x", "/" >>,
      << "\\", "s", "\\" >>,
      << "/", "t", "s", "/" >> }

\* The places path splits at into a leading directory and a suffix that
\* starts with the prefix.
Splits(path, prefix) ==
    { k \in Occurrences(path, prefix) : k = 1 \/ path[k - 1] \in PathSeparators }

\* Whether the prefix occurs in the directory d.
HoldsPrefix(d, prefix) == Occurrences(d, prefix) # {}

\* C25: for a path made of a leading directory and a suffix that starts
\* with the prefix, and every path made of another leading directory and the
\* same suffix, getCanonicalTestName returns the same identity.
C25_SameIdentityUnderAnyLeadingDir ==
    canonPc = "done" =>
        \A k \in Splits(canonIn.path, canonIn.prefix) :
            \A d \in LeadingDirs \ { SubSeq(canonIn.path, 1, k - 1) } :
                LET suffix == SubSeq(canonIn.path, k, Len(canonIn.path))
                    other == getCanonicalTestName(d \o suffix, canonIn.prefix)
                IN  /\ ~canonOut.raised
                    /\ ~other.raised
                    /\ other.cPath = canonOut.cPath

\* What holds of the code: the same, for leading directories in which the
\* prefix does not occur.
SameIdentityIfLeadingDirsLackPrefix ==
    canonPc = "done" =>
        \A k \in Splits(canonIn.path, canonIn.prefix) :
            \A d \in LeadingDirs \ { SubSeq(canonIn.path, 1, k - 1) } :
                LET suffix == SubSeq(canonIn.path, k, Len(canonIn.path))
                    other == getCanonicalTestName(d \o suffix, canonIn.prefix)
                IN  ( /\ ~HoldsPrefix(SubSeq(canonIn.path, 1, k - 1),
                                      canonIn.prefix)
                      /\ ~HoldsPrefix(d, canonIn.prefix) )
                    => /\ ~canonOut.raised
                       /\ ~other.raised
                       /\ other.cPath = canonOut.cPath

-----------------------------------------------------------------------------
(* Properties of gvapi.GPUVerifyTool (SpecApi).                            *)

\* The registrations.
Registered == 1 .. Len(observers)

\* A run method was called and got as far as running the tool.
ToolHasRun == apiPc \in { "returned", "raised" } /\ timeout > 0

\* No receive raises anything but an Exception.
ObserversRaiseExceptionsOnly ==
    \A i \in Registered : observers[i].does \in { "returns", "raises Exception" }

\* C26: after the tool has run, receive has been called once for every
\* registration, in registration order, with the tool's return code and
\* output, also when the receive of earlier observers raised an Exception;
\* and the call returns the tool's response.
C26_EveryObserverNotifiedOnce ==
    (ToolHasRun /\ ObserversRaiseExceptionsOnly) =>
        /\ apiPc = "returned"
        /\ response = toolResponse
        /\ Len(received) = Len(observers)
        /\ \A i \in Registered :
               received[i] = [ observer   |-> observers[i].id,
                               returnCode |-> toolResponse[1],
                               output     |-> toolResponse[2] ]

\* C26: two observers are registered, the receive of the first raised an
\* Exception, the second was notified and the call returned the response.
C26_Witness ==
    /\ apiPc = "returned"
    /\ Len(observers) = 2
    /\ observers[1].does = "raises Exception"
    /\ observers[1].id # observers[2].id
    /\ Len(received) = 2
    /\ response = << TIMEOUT, "" >>

\* C26: what the except clause does not cover.  The receive of the first
\* observer raised a KeyboardInterrupt or SystemExit: the second was not
\* notified and the call raised.
C26_BaseExceptionEndsTheCall ==
    /\ apiPc = "raised"
    /\ timeout > 0
    /\ Len(observers) = 2
    /\ Len(received) = 1

\* C27: a run method called with timeout = 0 runs the tool and returns its
\* response.
C27_ZeroTimeoutRunsTool ==
    (apiPc # "idle" /\ timeout = 0 /\ ObserversRaiseExceptionsOnly) =>
        /\ apiPc = "returned"
        /\ response = toolResponse
        /\ Len(received) = Len(observers)

\* What holds of the code: a call with a timeout of 0 or less raises before
\* the tool is run; no observer is notified and nothing is returned.
NonPositiveTimeoutRaises ==
    (apiPc # "idle" /\ timeout <= 0) =>
        /\ apiPc = "raised"
        /\ response = << >>
        /\ received = << >>

-----------------------------------------------------------------------------
(* Termination of the pool for every accepted thread count (FairSpec).     *)

\* main is in waitForCompletion() with at least one test submitted.
WaitingOnTests == mainPc = "wait" /\ Len(tests) > 0

\* A run() was ended by an exception.
SomeRunRaised == \E w \in AllWorkers : wpc[w] = "dead"

\* C28: for every number of threads the configuration check lets through
\* (at most 50, also 0 and negative numbers) and every non-empty set of
\* submitted tests whose run() calls all return, waitForCompletion()
\* eventually returns.
C28_WaitReturnsForEveryThreadCount ==
    (WaitingOnTests /\ ~TooManyThreads(numberOfThreads))
        ~> (mainPc = "done" \/ SomeRunRaised)

\* What holds of the code: the same, for one thread or more.
WaitReturnsWithAWorker ==
    (WaitingOnTests /\ numberOfThreads >= 1) ~> (mainPc = "done" \/ SomeRunRaised)

\* What holds of the code without a worker: main stays in
\* waitForCompletion() and every test stays in the queue.
NoWorkerNoReturn ==
    (numberOfThreads <= 0 /\ Len(tests) > 0) =>
        /\ mainPc # "done"
        /\ \A t \in Submitted : runCount[t] = 0

-----------------------------------------------------------------------------
(* Exit codes outside the registry (Spec).                                 *)

\* The tests whose tool has exited with a code, which run() has recorded.
ToolExited == { t \in Submitted : tests[t].gpuverifyReturnCode # << >> }

\* The worker's handling of test t is over: run() returned and task_done()
\* was called.
MarkedComplete(t) ==
    /\ runCount[t] = 1
    /\ \A w \in AllWorkers : wtest[w] # t

\* C29: whatever integer the tool exits with, registered or not, run()
\* completes, the test is executed with gpuverifyReturnCode that integer and,
\* the integer not being the expected code, testPassed = False, and the
\* worker marks the item complete.
C29_EveryExitCodeCompletesRun ==
    \A t \in ToolExited :
        /\ hasBeenExecuted(tests[t])
        /\ tests[t].gpuverifyReturnCode # << tests[t].expectedReturnCode >>
             => tests[t].testPassed = False
        /\ MarkedComplete(t)

\* What holds of the code: the same for the registered exit codes; on any
\* other run() raises KeyError, the test stays unexecuted and the worker's
\* thread ends without task_done().
RegisteredExitCodeCompletesRun ==
    \A t \in ToolExited :
        LET code == tests[t].gpuverifyReturnCode[1]
        IN  IF code \in DOMAIN errorCodeToString
            THEN /\ hasBeenExecuted(tests[t])
                 /\ code # tests[t].expectedReturnCode
                      => tests[t].testPassed = False
                 /\ MarkedComplete(t)
            ELSE /\ ~hasBeenExecuted(tests[t])
                 /\ \E w \in AllWorkers : wpc[w] = "dead" /\ wtest[w] = t
                 /\ mainPc # "done"

-----------------------------------------------------------------------------
(* Unexecuted tests in doComparison (SpecCmp).                             *)

\* The result state a run holds for an identity.
ResultState(run, id) ==
    IF PassedIn(run, id) = True THEN "passed"
    ELSE IF PassedIn(run, id) = False THEN "failed"
    ELSE "unexecuted"

\* The identities of both runs whose result state differs.
StateChanged ==
    { id \in InBoth :
        ResultState(oldTestList, id) # ResultState(newTestList, id) }

\* C30: an identity of both runs is counted as changed whenever its result
\* states (passed, failed, unexecuted) differ; with no test missing, the
\* verdict is regression exactly when such an identity was passed in old;
\* passed in old and unexecuted in new gives regression, and changes from
\* failed or unexecuted in old give none.
C30_ChangeIsWorseOnlyFromPassed ==
    cmpPc = "done" =>
        /\ cmpResult.changed = Cardinality(StateChanged)
        /\ cmpResult.missing = 0 =>
             ( cmpResult.verdict = 1 <=>
                 \E id \in StateChanged : ResultState(oldTestList, id) = "passed" )
        /\ ( \E id \in InBoth :
               /\ ResultState(oldTestList, id) = "passed"
               /\ ResultState(newTestList, id) = "unexecuted" )
             => cmpResult.verdict = 1
        /\ ( /\ cmpResult.missing = 0
             /\ StateChanged # {}
             /\ \A id \in StateChanged :
                  ResultState(oldTestList, id) \in { "failed", "unexecuted" } )
             => cmpResult.verdict = 0 - 1

\* C30: a test that passed in old and is unexecuted in new, compared, with
\* no other difference between the runs.
C30_Witness ==
    /\ cmpPc = "done"
    /\ Len(oldTestList) = 1
    /\ Len(newTestList) = 1
    /\ ResultState(oldTestList, Identity(oldTestList[1])) = "passed"
    /\ InBoth # {}
    /\ ResultState(newTestList, Identity(newTestList[1])) = "unexecuted"
    /\ cmpResult.verdict = 1

\* C30: a test unexecuted in old and failed in new, compared, with no other
\* difference between the runs: changed, and no regression.
C30_UnexecutedToFailedReached ==
    /\ cmpPc = "done"
    /\ Len(oldTestList) = 1
    /\ Len(newTestList) = 1
    /\ InBoth # {}
    /\ ResultState(oldTestList, Identity(oldTestList[1])) = "unexecuted"
    /\ ResultState(newTestList, Identity(newTestList[1])) = "failed"
    /\ cmpResult.changed = 1
    /\ cmpResult.verdict = 0 - 1

====
